---- MODULE Spec2Model ----
(***************************************************************************)
(* A model of block2's quantum.hpp: the stack arena allocator, the packed  *)
(* SpinLabel algebra, the CG selection rules, StateInfo / SparseMatrixInfo *)
(* index tables, the OpExpr algebra and the QCMPO operator-name layout.    *)
(*                                                                         *)
(* Each component has its own specification (SpecAlloc, SpecLabel, ...):   *)
(* the variables of the other components stay at their idle value.         *)
(***************************************************************************)
EXTENDS Integers, Sequences, FiniteSets, TLC

VARIABLES
    alloc,      \* StackAllocator<T>: [size, used, shift]; data is offset 0
    live,       \* the blocks the callers hold, in allocation order: [ptr, n]
    last,       \* the last StackAllocator call and what it did
    run,        \* an address-order reallocate pass in progress
    lab,        \* SpinLabel inputs and results
    cgs,        \* CG inputs and results
    sti,        \* StateInfo inputs and results
    smi,        \* SparseMatrixInfo inputs and results
    expr,       \* OpExpr inputs and results
    mpo,        \* QCMPO operator names
    life        \* the FCIDUMP / Hamiltonian / MPSInfo / QCMPO lifecycle

vars == <<alloc, live, last, run, lab, cgs, sti, smi, expr, mpo, life>>

Idle == [pc |-> "idle"]

AllocIdle ==
    /\ alloc = [size |-> 0, used |-> 0, shift |-> 0]
    /\ live = <<>>
    /\ last = Idle
    /\ run = Idle

(***************************************************************************)
(* Small helpers.                                                          *)
(***************************************************************************)
Min(a, b) == IF a <= b THEN a ELSE b
Max(a, b) == IF a >= b THEN a ELSE b
Abs(a) == IF a >= 0 THEN a ELSE -a

\* the sum of a sequence: the sum of its first half plus that of the rest
RECURSIVE SumSeq(_)
SumSeq(s) ==
    IF s = <<>> THEN 0
    ELSE IF Len(s) = 1 THEN s[1]
    ELSE SumSeq(SubSeq(s, 1, Len(s) \div 2)) +
         SumSeq(SubSeq(s, (Len(s) \div 2) + 1, Len(s)))

\* the concatenation of a sequence of sequences: the first half, then the rest
RECURSIVE Flatten(_)
Flatten(ss) ==
    IF ss = <<>> THEN <<>>
    ELSE IF Len(ss) = 1 THEN ss[1]
    ELSE Flatten(SubSeq(ss, 1, Len(ss) \div 2)) \o
         Flatten(SubSeq(ss, (Len(ss) \div 2) + 1, Len(ss)))

RemoveAt(s, i) == [k \in 1..(Len(s) - 1) |-> IF k < i THEN s[k] ELSE s[k + 1]]

(***************************************************************************)
(* size_t values.  A size_t v is kept as the integer v when it is small    *)
(* and as v - 2^64 (a negative integer) when an unsigned subtraction has   *)
(* wrapped: addition and subtraction are then those of the integers, and   *)
(* the unsigned order puts every wrapped value above every small one.      *)
(***************************************************************************)
ULess(a, b) == IF a >= 0 THEN (b < 0 \/ a < b) ELSE (b < 0 /\ a < b)

(***************************************************************************)
(* StackAllocator (quantum.hpp 75-106).  Pointers are offsets from data.   *)
(***************************************************************************)
\* T *allocate(size_t n)
Allocate(a, n) ==
    IF a.shift # 0 THEN [a |-> a, ret |-> -1, out |-> "assert"]
    ELSE IF ~ULess(a.used + n, a.size)
         THEN [a |-> a, ret |-> -1, out |-> "fatal_memory"]
         ELSE [a |-> [a EXCEPT !.used = a.used + n], ret |-> a.used, out |-> "ok"]

\* deallocate that frees without looking at the pointer
DeallocateNoOrder(a, ptr, n) ==
    IF n = 0 THEN [a |-> a, out |-> "noop"]
    ELSE IF ULess(a.used, n) THEN [a |-> a, out |-> "fatal_order"]
    ELSE [a |-> [a EXCEPT !.used = a.used - n], out |-> "ok"]

\* void deallocate(void *ptr, size_t n)
Deallocate(a, ptr, n) ==
    IF n = 0 THEN [a |-> a, out |-> "noop"]
    ELSE IF ULess(a.used, n) \/ ptr # a.used - n
         THEN [a |-> a, out |-> "fatal_order"]
         ELSE [a |-> [a EXCEPT !.used = a.used - n], out |-> "ok"]

\* reallocate that never collapses the shift
ReallocateKeepShift(a, ptr, n, new_n) ==
    [a |-> [a EXCEPT !.shift = a.shift + new_n - n, !.used = a.used + new_n - n],
     ret |-> ptr + a.shift]

\* T *reallocate(T *ptr, size_t n, size_t new_n)
Reallocate(a, ptr, n, new_n) ==
    LET p == ptr + a.shift
        sh == a.shift + new_n - n
        us == a.used + new_n - n
    IN [a |-> [a EXCEPT !.shift = IF p = us - new_n THEN 0 ELSE sh, !.used = us],
        ret |-> p]

(***************************************************************************)
(* The allocator driven by arbitrary callers: SpecAlloc.                   *)
(***************************************************************************)
AllocSize == 5      \* capacity of the arena (max_size)
MaxBlock == 2       \* largest block size a caller asks for
MaxLive == 3        \* most blocks held at once

\* print_trace() ends in abort(); a failed assert aborts too
Aborted == last.pc = "call" /\ last.out \in {"fatal_memory", "fatal_order", "assert"}

\* some reallocate call has been made
Realloced == last.pc = "call" /\ last.re

\* the blocks first..Len(live) lie end to end and end at the top of the stack
Contiguous(first) ==
    /\ \A j \in first..(Len(live) - 1) : live[j].ptr + live[j].n = live[j + 1].ptr
    /\ live[Len(live)].ptr + live[Len(live)].n = alloc.used

\* the variables the allocator's callers never touch
notAlloc == <<lab, cgs, sti, smi, expr, mpo, life>>

AllocInit ==
    /\ alloc = [size |-> AllocSize, used |-> 0, shift |-> 0]
    /\ live = <<>>
    /\ last = Idle
    /\ run = Idle
    /\ lab = Idle /\ cgs = Idle /\ sti = Idle /\ smi = Idle
    /\ expr = Idle /\ mpo = Idle /\ life = Idle

AllocateCall ==
    \E n \in 0..MaxBlock :
        LET r == Allocate(alloc, n) IN
        /\ ~Aborted
        /\ Len(live) < MaxLive
        /\ alloc' = r.a
        /\ live' = IF r.out = "ok" THEN Append(live, [ptr |-> r.ret, n |-> n]) ELSE live
        /\ last' = [pc |-> "call", op |-> "allocate", n |-> n, ptr |-> r.ret,
                    used0 |-> alloc.used, shift0 |-> alloc.shift, out |-> r.out,
                    idx |-> 0, top |-> TRUE, posAbove |-> FALSE, re |-> Realloced]
        /\ run' = Idle
        /\ UNCHANGED notAlloc

DeallocateCall ==
    \E i \in 1..Len(live) :
        LET r == Deallocate(alloc, live[i].ptr, live[i].n) IN
        /\ ~Aborted
        /\ alloc' = r.a
        /\ live' = IF r.out = "fatal_order" THEN live ELSE RemoveAt(live, i)
        /\ last' = [pc |-> "call", op |-> "deallocate", n |-> live[i].n,
                    ptr |-> live[i].ptr, used0 |-> alloc.used,
                    shift0 |-> alloc.shift, out |-> r.out, idx |-> i,
                    top |-> (i = Len(live)),
                    posAbove |-> (\E j \in (i + 1)..Len(live) : live[j].n > 0),
                    re |-> Realloced]
        /\ run' = Idle
        /\ UNCHANGED notAlloc

ReallocateCall ==
    \E i \in 1..Len(live), new_n \in 0..MaxBlock :
        LET r == Reallocate(alloc, live[i].ptr, live[i].n, new_n)
            cont == run.pc = "pass" /\ i = run.next
            begin == ~cont /\ alloc.shift = 0 /\ Contiguous(i)
        IN
        /\ ~Aborted
        /\ new_n <= live[i].n         \* every caller asserts length <= n
        /\ r.ret \in 0..AllocSize     \* the pointer stays inside the buffer
        /\ alloc' = r.a
        /\ live' = [live EXCEPT ![i] = [ptr |-> r.ret, n |-> new_n]]
        /\ last' = [pc |-> "call", op |-> "reallocate", n |-> live[i].n,
                    ptr |-> r.ret, used0 |-> alloc.used, shift0 |-> alloc.shift,
                    out |-> "ok", idx |-> i, top |-> (i = Len(live)),
                    posAbove |-> (\E j \in (i + 1)..Len(live) : live[j].n > 0),
                    re |-> TRUE]
        /\ run' = IF cont
                  THEN [run EXCEPT !.pc = IF i = Len(live) THEN "done" ELSE "pass",
                                   !.next = i + 1,
                                   !.olds = Append(@, live[i].n),
                                   !.news = Append(@, new_n),
                                   !.rets = Append(@, r.ret)]
                  ELSE IF begin
                  THEN [pc |-> IF i = Len(live) THEN "done" ELSE "pass",
                        first |-> i, start |-> live[i].ptr, next |-> i + 1,
                        olds |-> <<live[i].n>>, news |-> <<new_n>>,
                        rets |-> <<r.ret>>]
                  ELSE Idle
        /\ UNCHANGED notAlloc

AllocNext == AllocateCall \/ DeallocateCall \/ ReallocateCall

SpecAlloc == AllocInit /\ [][AllocNext]_vars

RECURSIVE SumFirst(_, _)
SumFirst(s, k) == IF k = 0 THEN 0 ELSE s[k] + SumFirst(s, k - 1)

IsCall(op) == last.pc = "call" /\ last.op = op

(* C2 (as claimed): deallocate succeeds only at ptr = data + used - n, and  *)
(* after any sequence of allocations, deallocating a block that is not the *)
(* most recently allocated live one takes the fatal path, used unchanged.  *)
C2_Claimed ==
    (IsCall("deallocate") /\ ~last.re) =>
        /\ (last.out = "ok" =>
                last.ptr = last.used0 - last.n /\ alloc.used = last.used0 - last.n)
        /\ (~last.top => last.out = "fatal_order" /\ alloc.used = last.used0)

(* C2 (amended): deallocate succeeds only at ptr = data + used - n; a      *)
(* block of size n > 0 below a later live block of positive size takes the *)
(* fatal path with used unchanged; a block of size 0 is released without   *)
(* any check and without changing used.                                    *)
C2_DeallocateLifo ==
    (IsCall("deallocate") /\ ~last.re) =>
        /\ (last.out = "ok" =>
                /\ last.n > 0
                /\ last.ptr = last.used0 - last.n
                /\ alloc.used = last.used0 - last.n)
        /\ ((last.n > 0 /\ last.posAbove) =>
                last.out = "fatal_order" /\ alloc.used = last.used0)
        /\ (last.n = 0 => last.out = "noop" /\ alloc.used = last.used0)

\* three blocks are live and the first, of positive size, is deallocated first
C2_Witness ==
    /\ IsCall("deallocate") /\ ~last.re
    /\ Len(live) = 3 /\ last.idx = 1 /\ last.n > 0 /\ last.posAbove
    /\ last.out = "fatal_order"

(* C3 (as claimed): allocate(n) at shift = 0 returns data + used and adds n *)
(* to used whenever used + n <= size, and takes the fatal path, used       *)
(* unchanged, only when used + n > size.                                   *)
C3_Claimed ==
    (IsCall("allocate") /\ last.shift0 = 0) =>
        IF last.used0 + last.n <= alloc.size
        THEN last.out = "ok" /\ last.ptr = last.used0
             /\ alloc.used = last.used0 + last.n
        ELSE last.out = "fatal_memory" /\ alloc.used = last.used0

PassPacked ==
    /\ alloc.shift = 0
    /\ alloc.used = run.start + SumSeq(run.news)
    /\ \A k \in 1..Len(run.rets) :
           run.rets[k] = run.start + SumFirst(run.news, k - 1)

(* C4 (as claimed): a contiguous run of live blocks ending at the top,     *)
(* reallocated in address order with new_n <= old_n, ends with shift = 0,  *)
(* used = start + sum of the new sizes, and every returned pointer equal   *)
(* to start + the sum of the new sizes before it.                          *)
C4_Claimed == run.pc = "done" => PassPacked

(* C4 (amended): the same, for a pass started with shift = 0 over blocks   *)
(* whose old sizes are all at least 1.                                     *)
C4_ReallocatePass ==
    (run.pc = "done" /\ \A k \in 1..Len(run.olds) : run.olds[k] >= 1) => PassPacked

\* a pass over three blocks that shrinks the first and keeps part of the second
C4_Witness ==
    /\ run.pc = "done" /\ Len(run.news) = 3
    /\ \A k \in 1..3 : run.olds[k] >= 1
    /\ run.news[1] < run.olds[1] /\ run.news[2] >= 1 /\ run.news[3] >= 1
    /\ run.rets[3] < run.start + run.olds[1] + run.olds[2]

(***************************************************************************)
(* SpinLabel (quantum.hpp 600-702).  The 32-bit word is kept as its four   *)
(* bytes <<n, twos_low, twos, pg>>, most significant first, so that every  *)
(* mask, shift, carry and wrap-around of the code is computed on bytes.    *)
(***************************************************************************)
RECURSIVE BitXor(_, _)
BitXor(a, b) ==
    IF a = 0 THEN b ELSE IF b = 0 THEN a
    ELSE (((a % 2) + (b % 2)) % 2) + 2 * BitXor(a \div 2, b \div 2)

RECURSIVE BitOr(_, _)
BitOr(a, b) ==
    IF a = 0 THEN b ELSE IF b = 0 THEN a
    ELSE Max(a % 2, b % 2) + 2 * BitOr(a \div 2, b \div 2)

\* byte j of the two's complement int x
IntByte(x, j) == (x \div (256 ^ j)) % 256

\* a byte read as a signed 8-bit number
Signed8(b) == IF b >= 128 THEN b - 256 ELSE b

\* SpinLabel(int n, int twos_low, int twos, int pg)
Label(n, twos_low, twos, pg) ==
    << BitOr(BitOr(IntByte(n, 0), IntByte(twos_low, 1)),
             BitOr(IntByte(twos, 2), IntByte(pg, 3))),
       BitOr(IntByte(twos_low, 0), BitOr(IntByte(twos, 1), IntByte(pg, 2))),
       BitOr(IntByte(twos, 0), IntByte(pg, 1)),
       IntByte(pg, 0) >>

\* SpinLabel(int n, int twos, int pg)
Label3(n, twos, pg) == Label(n, twos, twos, pg)

LabelN(q) == Signed8(q[1])
LabelTwosLow(q) == q[2]
LabelTwos(q) == q[3]
LabelPg(q) == q[4]

\* bool operator<(SpinLabel other): the unsigned order of the words,
\* compared as (high half, low half)
LabelLess(p, q) ==
    LET ph == p[1] * 256 + p[2]
        qh == q[1] * 256 + q[2]
    IN ph < qh \/ (ph = qh /\ p[3] * 256 + p[4] < q[3] * 256 + q[4])

\* operator-() with the + (1 << 24) left out: the one's complement of n
LabelNegNoCarry(q) == <<255 - q[1], q[2], q[3], q[4]>>

\* SpinLabel operator-() const
LabelNeg(q) == <<(256 - q[1]) % 256, q[2], q[3], q[4]>>

\* (((x >> 7) + x) ^ (x >> 7)) & 0xFF0000 for x = (hi << 16) - (lo << 16).
\* With d the low 16 bits of hi - lo, x is d << 16 and x >> 7 is d << 9, so
\* bits 16..23 of (x >> 7) + x are bits 7..14 of d + (d << 7), the low byte
\* of d + (d >> 7), and bits 16..23 of x >> 7 are the low byte of d >> 7.
SubData(hi, lo) ==
    LET d == (hi - lo) % 65536
    IN BitXor((d + (d \div 128)) % 256, (d \div 128) % 256)

\* SpinLabel operator+(SpinLabel other) const
LabelAdd(p, q) ==
    LET s1 == p[3] + q[3]
        lr == SubData(p[3], q[2])
        rl == SubData(q[3], p[2])
    IN << (p[1] + q[1]) % 256,
          BitOr(s1 \div 256, Min(lr, rl)),
          s1 % 256,
          BitXor(p[4], q[4]) >>

\* operator[] without the copy of the twos_low byte into the twos byte
LabelIndexKeepTwos(q, i) ==
    LET hi == (q[1] * 256 + q[2] + 2 * i) % 65536
    IN <<hi \div 256, hi % 256, q[3], q[4]>>

\* SpinLabel operator[](int i) const
LabelIndex(q, i) ==
    LET hi == (q[1] * 256 + q[2] + 2 * i) % 65536
    IN <<hi \div 256, hi % 256, hi % 256, q[4]>>

\* int count() const
LabelCount(q) == (((q[3] \div 2) - (q[2] \div 2)) % 128) + 1

\* the vacuum label, SpinLabel(0)
Vacuum == <<0, 0, 0, 0>>

(***************************************************************************)
(* SpecLabel: a label is built from its four fields and then negated,      *)
(* coupled with the label it started from, and indexed.                    *)
(***************************************************************************)
MaxN == 2           \* particle numbers -MaxN..MaxN besides the two extremes
MaxTwos == 3        \* doubled spins 0..MaxTwos besides the largest
MaxPg == 2          \* irreps 0..MaxPg besides the largest
MaxOps == 3         \* operations applied to one label
MaxIndex == 2       \* largest index i tried in q[i]
Int8Min == -128
Int8Max == 127
ByteMax == 255

LabelNs == (-MaxN..MaxN) \cup {Int8Min, Int8Max}
LabelSpins == (0..MaxTwos) \cup {Int8Max}
LabelPgs == (0..MaxPg) \cup {ByteMax}

notLabel == <<alloc, live, last, run, cgs, sti, smi, expr, mpo, life>>

LabelInit ==
    /\ AllocIdle
    /\ cgs = Idle /\ sti = Idle /\ smi = Idle
    /\ expr = Idle /\ mpo = Idle /\ life = Idle
    /\ \E n \in LabelNs, tl \in LabelSpins, t \in LabelSpins, pg \in LabelPgs :
          /\ tl <= t /\ (t - tl) % 2 = 0
          /\ lab = [pc |-> "label",
                    arg |-> [n |-> n, twos_low |-> tl, twos |-> t, pg |-> pg],
                    q |-> Label(n, tl, t, pg), x |-> Label(n, tl, t, pg),
                    hist |-> <<>>]

\* the label after one more operation
LabelStep(op, i, x) == [lab EXCEPT !.x = x, !.hist = Append(@, [op |-> op, i |-> i])]

\* x = -x
LabelNegate ==
    /\ lab.pc = "label"
    /\ Len(lab.hist) < MaxOps
    /\ lab' = LabelStep("neg", 0, LabelNeg(lab.x))
    /\ UNCHANGED notLabel

\* x = q + x
LabelCouple ==
    /\ lab.pc = "label"
    /\ Len(lab.hist) < MaxOps
    /\ lab' = LabelStep("add", 0, LabelAdd(lab.q, lab.x))
    /\ UNCHANGED notLabel

\* x = x[i]
LabelSelect ==
    \E i \in 0..Min(LabelCount(lab.x) - 1, MaxIndex) :
        /\ lab.pc = "label"
        /\ Len(lab.hist) < MaxOps
        /\ lab' = LabelStep("index", i, LabelIndex(lab.x, i))
        /\ UNCHANGED notLabel

LabelNext == LabelNegate \/ LabelCouple \/ LabelSelect

SpecLabel == LabelInit /\ [][LabelNext]_vars

\* the operations applied so far
LabelOps == [k \in 1..Len(lab.hist) |-> lab.hist[k].op]

\* the label was built single-valued, from fields inside their ranges
SingleValued ==
    /\ lab.pc = "label"
    /\ lab.arg.twos_low = lab.arg.twos
    /\ lab.arg.twos >= 0 /\ 2 * lab.arg.twos <= ByteMax
    /\ lab.arg.n \in Int8Min..Int8Max
    /\ lab.arg.pg \in 0..ByteMax

(* C6: for a single-valued label q built from fields inside their ranges,  *)
(* -(-q) = q, q + (-q) has count() >= 1, and (q + (-q))[0] is the vacuum   *)
(* label with n = 0, twos_low = twos = 0, pg = 0.                          *)
C6_SelfInverse ==
    SingleValued =>
        /\ (LabelOps = <<"neg", "neg">> => lab.x = lab.q)
        /\ (LabelOps = <<"neg", "add">> => LabelCount(lab.x) >= 1)
        /\ ((LabelOps = <<"neg", "add", "index">> /\ lab.hist[3].i = 0) =>
                /\ lab.x = Vacuum
                /\ LabelN(lab.x) = 0 /\ LabelTwosLow(lab.x) = 0
                /\ LabelTwos(lab.x) = 0 /\ LabelPg(lab.x) = 0)

\* q with n < 0, the largest spin and a non-trivial irrep, coupled to -q
C6_Witness ==
    /\ SingleValued
    /\ lab.arg.n < 0 /\ lab.arg.twos = Int8Max /\ lab.arg.pg > 0
    /\ LabelOps = <<"neg", "add", "index">> /\ lab.hist[3].i = 0
    /\ lab.x = Vacuum

(***************************************************************************)
(* CG (quantum.hpp 428-490).  x & 1 is x % 2 and x >> 1 is x \div 2, also  *)
(* for negative x.  wigner_3j is modelled by the path it takes, the        *)
(* sqrt_fact entries it reads, and whether its result is the literal 0.    *)
(***************************************************************************)
\* triangle without the parity test
TriangleNoParity(tja, tjb, tjc) == tjc <= tja + tjb /\ tjc >= Abs(tja - tjb)

\* static bool triangle(int tja, int tjb, int tjc)
Triangle(tja, tjb, tjc) ==
    /\ (tja + tjb + tjc) % 2 = 0
    /\ tjc <= tja + tjb
    /\ tjc >= Abs(tja - tjb)

\* the sqrt_fact entries sqrt_delta reads
SqrtDeltaReads(tja, tjb, tjc) ==
    { (tja + tjb - tjc) \div 2, (tja - tjb + tjc) \div 2,
      (tjb + tjc - tja) \div 2, (tja + tjb + tjc + 2) \div 2 }

\* long double wigner_3j(int tja, int tjb, int tjc, int tma, int tmb, int tmc)
Wigner3j(tja, tjb, tjc, tma, tmb, tmc) ==
    IF \/ tma + tmb + tmc # 0
       \/ ~Triangle(tja, tjb, tjc)
       \/ (tja + tma) % 2 = 1
       \/ (tjb + tmb) % 2 = 1
       \/ (tjc + tmc) % 2 = 1
    THEN [path |-> "early", zero |-> TRUE, reads |-> {}]
    ELSE
      LET alpha1 == (tjb - tjc - tma) \div 2
          alpha2 == (tja - tjc + tmb) \div 2
          beta1 == (tja + tjb - tjc) \div 2
          beta2 == (tja - tma) \div 2
          beta3 == (tjb + tmb) \div 2
          max_alpha == Max(0, Max(alpha1, alpha2))
          min_beta == Min(beta1, Min(beta2, beta3))
      IN IF max_alpha > min_beta
         THEN [path |-> "range", zero |-> TRUE, reads |-> {}]
         ELSE [path |-> "sum", zero |-> FALSE,
               reads |-> SqrtDeltaReads(tja, tjb, tjc)
                   \cup { (tja + tma) \div 2, (tja - tma) \div 2,
                          (tjb + tmb) \div 2, (tjb - tmb) \div 2,
                          (tjc + tmc) \div 2, (tjc - tmc) \div 2 }
                   \cup UNION { { t, t - alpha1, t - alpha2,
                                  beta1 - t, beta2 - t, beta3 - t } :
                                t \in max_alpha..min_beta }]

(***************************************************************************)
(* SpecCG: triangle and wigner_3j applied to bounded doubled arguments.    *)
(***************************************************************************)
MaxJ == 2           \* doubled momenta and projections -MaxJ..MaxJ

notCG == <<alloc, live, last, run, lab, sti, smi, expr, mpo, life>>

CGInit ==
    /\ AllocIdle
    /\ lab = Idle /\ sti = Idle /\ smi = Idle
    /\ expr = Idle /\ mpo = Idle /\ life = Idle
    /\ \E a \in -MaxJ..MaxJ, b \in -MaxJ..MaxJ, c \in -MaxJ..MaxJ,
          ma \in -MaxJ..MaxJ, mb \in -MaxJ..MaxJ, mc \in -MaxJ..MaxJ :
          cgs = [pc |-> "args", tja |-> a, tjb |-> b, tjc |-> c,
                 tma |-> ma, tmb |-> mb, tmc |-> mc]

CGTriangle ==
    /\ cgs.pc = "args"
    /\ cgs' = [pc |-> "triangle", tja |-> cgs.tja, tjb |-> cgs.tjb, tjc |-> cgs.tjc,
               tma |-> cgs.tma, tmb |-> cgs.tmb, tmc |-> cgs.tmc,
               ret |-> Triangle(cgs.tja, cgs.tjb, cgs.tjc)]
    /\ UNCHANGED notCG

CGWigner3j ==
    /\ cgs.pc = "args"
    /\ cgs' = [pc |-> "wigner_3j", tja |-> cgs.tja, tjb |-> cgs.tjb, tjc |-> cgs.tjc,
               tma |-> cgs.tma, tmb |-> cgs.tmb, tmc |-> cgs.tmc,
               ret |-> Wigner3j(cgs.tja, cgs.tjb, cgs.tjc, cgs.tma, cgs.tmb, cgs.tmc)]
    /\ UNCHANGED notCG

CGNext == CGTriangle \/ CGWigner3j

SpecCG == CGInit /\ [][CGNext]_vars

\* the selection rule in the claim's words
Forbidden ==
    \/ (cgs.tja + cgs.tjb + cgs.tjc) % 2 # 0
    \/ Abs(cgs.tja - cgs.tjb) > cgs.tjc
    \/ cgs.tjc > cgs.tja + cgs.tjb
    \/ cgs.tma + cgs.tmb + cgs.tmc # 0

(* C7: wigner_3j returns exactly 0 whenever a+b+c is odd, |a-b| > c,       *)
(* c > a+b or ma+mb+mc # 0, on the early-return path and before any        *)
(* sqrt_fact entry is read; triangle(a, b, c) is true exactly when a+b+c   *)
(* is even and |a-b| <= c <= a+b.                                          *)
C7_SelectionRule ==
    /\ (cgs.pc = "wigner_3j" /\ Forbidden) =>
           cgs.ret.zero /\ cgs.ret.path = "early" /\ cgs.ret.reads = {}
    /\ cgs.pc = "triangle" =>
           (cgs.ret <=> /\ (cgs.tja + cgs.tjb + cgs.tjc) % 2 = 0
                        /\ Abs(cgs.tja - cgs.tjb) <= cgs.tjc
                        /\ cgs.tjc <= cgs.tja + cgs.tjb)

\* projections sum to 0 and a+b+c is odd with |a-b| <= c <= a+b: the parity alone forbids
C7_Witness ==
    /\ cgs.pc = "wigner_3j"
    /\ cgs.tma + cgs.tmb + cgs.tmc = 0
    /\ (cgs.tja + cgs.tjb + cgs.tjc) % 2 = 1
    /\ Abs(cgs.tja - cgs.tjb) <= cgs.tjc /\ cgs.tjc <= cgs.tja + cgs.tjb
    /\ cgs.ret.zero /\ cgs.ret.path = "early"

(***************************************************************************)
(* StateInfo (quantum.hpp 1223-1365).  A table is the record               *)
(* [quanta, n_states, n_states_total]; its length n is Len(quanta).        *)
(***************************************************************************)
U16Max == 65535

\* StateInfo()
EmptyState == [quanta |-> <<>>, n_states |-> <<>>, n_states_total |-> 0]

\* the slots tensor_product fills for a.quanta[i] + b.quanta[j], k = 0..count()-1
CoupledSlots(a, b, i, j) ==
    LET qc == LabelAdd(a.quanta[i], b.quanta[j])
        nprod == a.n_states[i] * b.n_states[j]
    IN [k \in 1..LabelCount(qc) |->
            [q |-> LabelIndex(qc, k - 1), n |-> Min(nprod, U16Max)]]

\* the slots of the first p pairs (i, j), in the order of the two loops
TensorSlots(a, b, p) ==
    Flatten(<<>> \o [pair \in 1..p |->
                CoupledSlots(a, b, ((pair - 1) \div Len(b.quanta)) + 1,
                                   ((pair - 1) % Len(b.quanta)) + 1)])

\* the place sort_states gives the slot k: behind the slots with a smaller
\* label, and behind the earlier slots with the same label
SlotRank(s, k) ==
    Cardinality({j \in 1..Len(s) :
        LabelLess(s[j].q, s[k].q) \/ (j < k /\ ~LabelLess(s[k].q, s[j].q))})

\* void sort_states(): the slots in the order of their labels
SortSlots(s) ==
    LET rank == <<>> \o [k \in 1..Len(s) |-> SlotRank(s, k)]
    IN <<>> \o [p \in 1..Len(s) |-> s[CHOOSE k \in 1..Len(s) : rank[k] = p - 1]]

\* the loop of collect over the slots lo..hi: the slots lo..mid, then the
\* rest, whose first slot adds to the last one made so far when the labels agree
RECURSIVE CollectRange(_, _, _)
CollectRange(s, lo, hi) ==
    IF lo > hi THEN <<>>
    ELSE IF lo = hi THEN (IF s[lo].n = 0 THEN <<>> ELSE <<s[lo]>>)
    ELSE LET acc == CollectRange(s, lo, (lo + hi) \div 2)
             more == CollectRange(s, ((lo + hi) \div 2) + 1, hi)
         IN IF acc # <<>> /\ more # <<>> /\ more[1].q = acc[Len(acc)].q
            THEN [acc EXCEPT ![Len(acc)].n = Min(@ + more[1].n, U16Max)] \o Tail(more)
            ELSE acc \o more

\* the loop of collect over the first nn slots
CollectSlots(s, nn) == CollectRange(s, 1, nn)

\* a table from its slots, n_states_total summed over them
StateOf(s) ==
    [quanta |-> [k \in 1..Len(s) |-> s[k].q],
     n_states |-> [k \in 1..Len(s) |-> s[k].n],
     n_states_total |-> SumSeq([k \in 1..Len(s) |-> s[k].n])]

\* collect without the upper_bound: every slot, whatever the target
CollectEverySlot(s, target) == StateOf(CollectSlots(s, Len(s)))

\* void collect(SpinLabel target) on sorted slots
Collect(s, target) ==
    StateOf(CollectSlots(s, Cardinality({k \in 1..Len(s) : ~LabelLess(target, s[k].q)})))

\* tensor_product that keeps one slot for each pair, whatever count() says
TensorProductFirstOnly(a, b, target) ==
    Collect(SortSlots([p \in 1..(Len(a.quanta) * Len(b.quanta)) |->
                CoupledSlots(a, b, ((p - 1) \div Len(b.quanta)) + 1,
                                   ((p - 1) % Len(b.quanta)) + 1)[1]]), target)

\* static StateInfo tensor_product(const StateInfo &a, const StateInfo &b, SpinLabel target)
TensorProduct(a, b, target) ==
    Collect(SortSlots(TensorSlots(a, b, Len(a.quanta) * Len(b.quanta))), target)

(***************************************************************************)
(* SpecState: tensor_product applied to sorted, duplicate-free tables of   *)
(* single-valued labels.                                                   *)
(***************************************************************************)
MaxStateN == 1      \* particle numbers 0..MaxStateN in a factor table

\* labels with a spin a site can carry: twos <= n, of the parity of n
StateLabels ==
    { Label3(p[1], p[2], 0) :
      p \in { p \in (0..MaxStateN) \X (0..MaxStateN) :
                 p[2] <= p[1] /\ (p[1] - p[2]) % 2 = 0 } }

\* numbers of states in one entry: none, one state, or so many that a product saturates
StateCounts == {0, 1, 256}

\* the sorted sequence of a set of labels
RECURSIVE SortedLabels(_)
SortedLabels(S) ==
    IF S = {} THEN <<>>
    ELSE LET m == CHOOSE x \in S : \A y \in S : ~LabelLess(y, x)
         IN <<m>> \o SortedLabels(S \ {m})

\* the sorted tables over some of the labels, with n_states from counts
StateTablesOver(labels, counts) ==
    { [quanta |-> SortedLabels(S), n_states |-> ns,
       n_states_total |-> SumSeq(ns)] :
      <<S, ns>> \in { p \in (SUBSET labels) \X
                              UNION { [1..k -> counts] : k \in 0..Cardinality(labels) } :
                      Cardinality(p[1]) = Len(p[2]) } }

\* tables with entries of every count, and tables without empty entries
StateTables == StateTablesOver(StateLabels, StateCounts)
FullStateTables == StateTablesOver(StateLabels, StateCounts \ {0})

\* a target inside the coupled labels, and the largest word the default names
StateTargets == { Label3(MaxStateN, MaxStateN, 0), <<127, 255, 255, 255>> }

notState == <<alloc, live, last, run, lab, cgs, smi, expr, mpo, life>>

StateInit ==
    /\ AllocIdle
    /\ lab = Idle /\ cgs = Idle /\ smi = Idle
    /\ expr = Idle /\ mpo = Idle /\ life = Idle
    /\ \E a \in StateTables, b \in FullStateTables, target \in StateTargets :
          sti = [pc |-> "args", a |-> a, b |-> b, target |-> target]

StateTensorProduct ==
    /\ sti.pc = "args"
    /\ sti' = [pc |-> "tensor_product", a |-> sti.a, b |-> sti.b,
               target |-> sti.target,
               c |-> TensorProduct(sti.a, sti.b, sti.target)]
    /\ UNCHANGED notState

StateNext == StateTensorProduct

SpecState == StateInit /\ [][StateNext]_vars

\* the pairs (i, j) of entries of the two factors
FactorPairs == (1..Len(sti.a.quanta)) \X (1..Len(sti.b.quanta))

\* the labels the pair p couples to
CoupledLabels(p) ==
    LET qc == LabelAdd(sti.a.quanta[p[1]], sti.b.quanta[p[2]])
    IN { LabelIndex(qc, k) : k \in 0..(LabelCount(qc) - 1) }

RECURSIVE SumOver(_, _)
SumOver(S, f) ==
    IF S = {} THEN 0
    ELSE LET x == CHOOSE x \in S : TRUE IN f[x] + SumOver(S \ {x}, f)

\* dA * dB
DimProduct == SumSeq(sti.a.n_states) * SumSeq(sti.b.n_states)

\* the number of coupled states: every pair counted once for each label it couples to
CoupledDim ==
    SumOver(FactorPairs,
            [p \in FactorPairs |->
                Cardinality(CoupledLabels(p)) * sti.a.n_states[p[1]] * sti.b.n_states[p[2]]])

\* every label some pair couples to
AllCoupled == UNION { CoupledLabels(p) : p \in FactorPairs }

\* target is at least as large as every coupled label
NothingTruncated == \A q \in AllCoupled : ~LabelLess(sti.target, q)

\* no coupled label collects more states than a uint16_t holds
NothingSaturated ==
    \A q \in AllCoupled :
        LET P == {r \in FactorPairs : q \in CoupledLabels(r)}
        IN SumOver(P, [r \in P |-> sti.a.n_states[r[1]] * sti.b.n_states[r[2]]]) <= U16Max

\* every label of the two factors has spin 0
SpinFree ==
    /\ \A i \in 1..Len(sti.a.quanta) : LabelTwos(sti.a.quanta[i]) = 0
    /\ \A j \in 1..Len(sti.b.quanta) : LabelTwos(sti.b.quanta[j]) = 0

(* C8 (as claimed): tensor_product(A, B, target).n_states_total <= dA*dB,  *)
(* with equality when target is at least as large as every coupled label.  *)
C8_Claimed ==
    sti.pc = "tensor_product" =>
        /\ sti.c.n_states_total <= DimProduct
        /\ NothingTruncated => sti.c.n_states_total = DimProduct

(* C8 (amended): n_states_total is at most the sum over the pairs of       *)
(* entries of count() * n_states * n_states, with equality when nothing is *)
(* truncated and no entry saturates at 65535; that sum is dA*dB when every *)
(* label of A and B has spin 0.                                            *)
C8_TensorBound ==
    sti.pc = "tensor_product" =>
        /\ sti.c.n_states_total <= CoupledDim
        /\ (NothingTruncated /\ NothingSaturated) => sti.c.n_states_total = CoupledDim
        /\ SpinFree => CoupledDim = DimProduct

\* two factors with spin couple to more states than dA*dB, none truncated or saturated
C8_Witness ==
    /\ sti.pc = "tensor_product"
    /\ Len(sti.a.quanta) = 2 /\ Len(sti.b.quanta) = 2
    /\ NothingTruncated /\ NothingSaturated
    /\ sti.c.n_states_total = CoupledDim
    /\ CoupledDim > DimProduct

(***************************************************************************)
(* uint32_t block offsets.  A product of two uint16_t does not fit a model *)
(* integer, so an offset is the pair <<high, low>> of base-65536 digits:   *)
(* the exact value while high is unbounded, the uint32_t after U32.        *)
(***************************************************************************)
Half == 65536

\* the exact product of two uint16_t values
WideMul(x, y) ==
    LET p1 == (x \div 256) * y
        low == ((p1 % 256) * 256) + ((x % 256) * y)
    IN <<(p1 \div 256) + (low \div Half), low % Half>>

WideAdd(x, y) == <<x[1] + y[1] + ((x[2] + y[2]) \div Half), (x[2] + y[2]) % Half>>

WideLeq(x, y) == x[1] < y[1] \/ (x[1] = y[1] /\ x[2] <= y[2])

\* the value a uint32_t keeps
U32(x) == <<x[1] % Half, x[2]>>

(***************************************************************************)
(* SparseMatrixInfo (quantum.hpp 1367-1464).                               *)
(***************************************************************************)
\* int find_state(SpinLabel q) const: lower_bound on a sorted table, 0-based
FindState(quanta, q) ==
    LET p == Cardinality({k \in 1..Len(quanta) : LabelLess(quanta[k], q)})
    IN IF p = Len(quanta) \/ quanta[p + 1] # q THEN -1 ELSE p

\* void set_twos_low(int twos)
SetTwosLow(q, twos) == <<q[1], twos % 256, q[3], q[4]>>

\* SpinLabel get_ket() const
GetKet(q) == <<q[1], q[3], q[3], q[4]>>

\* SpinLabel get_bra(SpinLabel dq) const
GetBra(q, dq) == <<(q[1] + dq[1]) % 256, q[2], q[2], BitXor(q[4], dq[4])>>

\* initialize that looks up only the first label of dq + q
PushedForFirst(bra, ket, dq, wfn, i) ==
    IF FindState(bra.quanta,
                 LabelIndex(LabelAdd(dq, IF wfn THEN LabelNeg(ket.quanta[i])
                                         ELSE ket.quanta[i]), 0)) # -1
    THEN << SetTwosLow(IF wfn THEN LabelNeg(ket.quanta[i]) ELSE ket.quanta[i],
                       LabelTwos(LabelIndex(LabelAdd(dq, IF wfn THEN LabelNeg(ket.quanta[i])
                                                         ELSE ket.quanta[i]), 0))) >>
    ELSE <<>>

\* the labels initialize pushes for ket entry i, k = 0..count()-1
PushedFor(bra, ket, dq, wfn, i) ==
    LET q == IF wfn THEN LabelNeg(ket.quanta[i]) ELSE ket.quanta[i]
        bs == LabelAdd(dq, q)
        hit == [k \in 1..LabelCount(bs) |->
                   FindState(bra.quanta, LabelIndex(bs, k - 1)) # -1]
        ks == {k \in 1..LabelCount(bs) : hit[k]}
    IN [m \in 1..Cardinality(ks) |->
           LET k == CHOOSE k \in ks : Cardinality({j \in ks : j < k}) = m - 1
           IN SetTwosLow(q, LabelTwos(LabelIndex(bs, k - 1)))]

\* the vector qs after the first i ket entries
RECURSIVE Pushed(_, _, _, _, _)
Pushed(bra, ket, dq, wfn, i) ==
    IF i = 0 THEN <<>>
    ELSE Pushed(bra, ket, dq, wfn, i - 1) \o PushedFor(bra, ket, dq, wfn, i)

\* sort(quanta, quanta + n)
RECURSIVE SortLabels(_)
SortLabels(s) ==
    IF s = <<>> THEN <<>>
    ELSE LET r == SortLabels(SubSeq(s, 1, Len(s) - 1))
             e == s[Len(s)]
             at == Cardinality({k \in 1..Len(r) : ~LabelLess(e, r[k])})
         IN [k \in 1..(Len(r) + 1) |->
                IF k <= at THEN r[k] ELSE IF k = at + 1 THEN e ELSE r[k - 1]]

\* n_states[idx]; idx = -1 reads in front of the array and yields junk
StatesAt(n_states, idx, junk) == IF idx = -1 THEN junk ELSE n_states[idx + 1]

\* n_states_total[0..m-1]
RECURSIVE Offsets(_, _, _)
Offsets(nb, nk, m) ==
    IF m = 0 THEN <<>>
    ELSE IF m = 1 THEN << <<0, 0>> >>
    ELSE LET t == Offsets(nb, nk, m - 1)
         IN Append(t, U32(WideAdd(t[m - 1], WideMul(nb[m - 1], nk[m - 1]))))

\* void initialize(const StateInfo &bra, const StateInfo &ket, SpinLabel dq,
\*                 bool is_fermion, bool wfn)
Initialize(bra, ket, dq, is_fermion, wfn, junk) ==
    LET quanta == SortLabels(Pushed(bra, ket, dq, wfn, Len(ket.quanta)))
        n == Len(quanta)
        nk == [i \in 1..n |->
                StatesAt(ket.n_states,
                         FindState(ket.quanta,
                                   IF wfn THEN LabelNeg(GetKet(quanta[i]))
                                   ELSE GetKet(quanta[i])), junk)]
        nb == [i \in 1..n |->
                StatesAt(bra.n_states,
                         FindState(bra.quanta, GetBra(quanta[i], dq)), junk)]
    IN [quanta |-> quanta, n_states_bra |-> nb, n_states_ket |-> nk,
        n_states_total |-> Offsets(nb, nk, n),
        delta_quantum |-> dq, is_fermion |-> is_fermion,
        is_wavefunction |-> wfn, n |-> n]

\* uint32_t get_total_memory() const
GetTotalMemory(info) ==
    IF info.n = 0 THEN <<0, 0>>
    ELSE U32(WideAdd(info.n_states_total[info.n],
                     WideMul(info.n_states_bra[info.n], info.n_states_ket[info.n])))

(***************************************************************************)
(* SpecSMI: initialize and get_total_memory applied to sorted,             *)
(* duplicate-free bra and ket tables of single-valued labels.              *)
(***************************************************************************)
\* numbers of states in one entry: one state, or as many as a uint16_t holds
SmiCounts == {1, U16Max}

SmiTables ==
    { [quanta |-> SortedLabels(p[1]), n_states |-> p[2],
       n_states_total |-> SumSeq(p[2])] :
      p \in { p \in (SUBSET StateLabels) \X
                     UNION { [1..k -> SmiCounts] : k \in 0..Cardinality(StateLabels) } :
                Cardinality(p[1]) = Len(p[2]) } }

\* the vacuum, a creation operator's label, and a two-electron singlet
SmiDeltas == { Vacuum, Label3(1, 1, 0), Label3(2, 0, 0) }

notSMI == <<alloc, live, last, run, lab, cgs, sti, expr, mpo, life>>

SMIInit ==
    /\ AllocIdle
    /\ lab = Idle /\ cgs = Idle /\ sti = Idle
    /\ expr = Idle /\ mpo = Idle /\ life = Idle
    /\ \E bra \in SmiTables, ket \in SmiTables, dq \in SmiDeltas, wfn \in BOOLEAN :
          smi = [pc |-> "args", bra |-> bra, ket |-> ket, dq |-> dq, wfn |-> wfn]

SMIInitialize ==
    \E is_fermion \in BOOLEAN, junk \in {0, U16Max} :
        /\ smi.pc = "args"
        /\ smi' = [pc |-> "initialize", bra |-> smi.bra, ket |-> smi.ket,
                   dq |-> smi.dq, wfn |-> smi.wfn,
                   info |-> Initialize(smi.bra, smi.ket, smi.dq, is_fermion, smi.wfn, junk)]
        /\ UNCHANGED notSMI

SMIGetTotalMemory ==
    /\ smi.pc = "initialize"
    /\ smi' = [pc |-> "get_total_memory", bra |-> smi.bra, ket |-> smi.ket,
               dq |-> smi.dq, wfn |-> smi.wfn, info |-> smi.info,
               total |-> GetTotalMemory(smi.info)]
    /\ UNCHANGED notSMI

SMINext == SMIInitialize \/ SMIGetTotalMemory

SpecSMI == SMIInit /\ [][SMINext]_vars

\* the exact size of block i
BlockSize(i) == WideMul(smi.info.n_states_bra[i], smi.info.n_states_ket[i])

\* the exact end of block i
BlockEnd(i) == WideAdd(smi.info.n_states_total[i], BlockSize(i))

\* the exact sum of the sizes of the first m blocks
RECURSIVE BlockSum(_)
BlockSum(m) == IF m = 0 THEN <<0, 0>> ELSE WideAdd(BlockSum(m - 1), BlockSize(m))

BlockAccounting ==
    LET info == smi.info IN
    /\ \A i \in 1..(info.n - 1) : LabelLess(info.quanta[i], info.quanta[i + 1])
    /\ info.n >= 1 => info.n_states_total[1] = <<0, 0>>
    /\ \A i \in 1..(info.n - 1) : info.n_states_total[i + 1] = BlockEnd(i)
    /\ smi.total = IF info.n = 0 THEN <<0, 0>> ELSE BlockEnd(info.n)
    /\ \A i \in 1..info.n : \A j \in (i + 1)..info.n :
           WideLeq(BlockEnd(i), info.n_states_total[j])

(* C9 (as claimed): after initialize on sorted, duplicate-free tables the  *)
(* quanta are strictly increasing, n_states_total[0] = 0,                  *)
(* n_states_total[i+1] = n_states_total[i] + bra[i]*ket[i], and            *)
(* get_total_memory() = n_states_total[n-1] + bra[n-1]*ket[n-1] (0 when    *)
(* n = 0), so that the blocks are pairwise disjoint and cover              *)
(* [0, get_total_memory()).                                                *)
C9_Claimed == smi.pc = "get_total_memory" => BlockAccounting

\* the accounting is exact as long as the blocks together fit a uint32_t
BlockAccountingNoWrap ==
    (smi.pc = "get_total_memory" /\ BlockSum(smi.info.n)[1] < Half) => BlockAccounting

\* every entry of the table was found in bra and in ket
LookupsFound ==
    smi.pc = "initialize" =>
        \A i \in 1..smi.info.n :
            /\ FindState(smi.bra.quanta, GetBra(smi.info.quanta[i], smi.dq)) # -1
            /\ FindState(smi.ket.quanta,
                         IF smi.wfn THEN LabelNeg(GetKet(smi.info.quanta[i]))
                         ELSE GetKet(smi.info.quanta[i])) # -1

(***************************************************************************)
(* double factors.  A double is kept as [m, e], the value m * 2^e with m   *)
(* odd (or m = 0, e = 0), so that equal values are equal records.  A       *)
(* product is rounded once, to nearest with ties to even, to MantissaBits  *)
(* significant bits; overflow, underflow and NaN are left out.             *)
(***************************************************************************)
MantissaBits == 3   \* significant bits of a factor (53 in a double)

RECURSIVE FNorm(_, _)
FNorm(m, e) ==
    IF m = 0 THEN [m |-> 0, e |-> 0]
    ELSE IF m % 2 = 0 THEN FNorm(m \div 2, e + 1)
    ELSE [m |-> m, e |-> e]

\* the number of bits by which m exceeds the mantissa
RECURSIVE ExcessBits(_)
ExcessBits(m) == IF m < 2 ^ MantissaBits THEN 0 ELSE 1 + ExcessBits(m \div 2)

\* m * 2^e rounded to the mantissa, to nearest, ties to even
FRound(m, e) ==
    LET k == ExcessBits(Abs(m))
        q == Abs(m) \div (2 ^ k)
        r == Abs(m) % (2 ^ k)
        up == k > 0 /\ (2 * r > 2 ^ k \/ (2 * r = 2 ^ k /\ q % 2 = 1))
        qr == IF up THEN q + 1 ELSE q
    IN FNorm(IF m < 0 THEN -qr ELSE qr, e + k)

\* the double x * y
FMul(x, y) == FRound(x.m * y.m, x.e + y.e)

\* x * y computed without rounding
FMulExact(x, y) == FNorm(x.m * y.m, x.e + y.e)

\* the double of the integer i
FInt(i) == FRound(i, 0)

(***************************************************************************)
(* OpExpr (quantum.hpp 704-1053).                                          *)
(***************************************************************************)
\* make_shared<OpExpr>()
Zero == [type |-> "Zero"]

\* OpElement(name, site_index, q_label, factor)
OpElement(name, site_index, q_label, factor) ==
    [type |-> "Elem", name |-> name, site_index |-> site_index,
     q_label |-> q_label, factor |-> factor]

\* OpElement abs() const
ElemAbs(x) == OpElement(x.name, x.site_index, x.q_label, FInt(1))

\* this->factor after the constructor's loop over the first k ops
RECURSIVE StringFactor(_, _, _)
StringFactor(ops, factor, k) ==
    IF k = 0 THEN factor
    ELSE FMul(StringFactor(ops, factor, k - 1), ops[k].factor)

\* OpString(ops, factor)
OpString(ops, factor) ==
    [type |-> "Prod", factor |-> StringFactor(ops, factor, Len(ops)),
     ops |-> [k \in 1..Len(ops) |-> ElemAbs(ops[k])]]

\* OpSum(strings)
OpSum(strings) == [type |-> "Sum", strings |-> strings]

\* the OpString of one element that operator+ and sum build
StringOf(x) == OpString(<<x>>, FInt(1))

\* bool OpElement::operator==(const OpElement &other) const
ElemEq(x, y) ==
    x.name = y.name /\ x.site_index = y.site_index /\ x.factor = y.factor

\* bool OpString::operator==(const OpString &other) const
StringEq(x, y) ==
    /\ Len(x.ops) = Len(y.ops)
    /\ x.factor = y.factor
    /\ \A i \in 1..Len(x.ops) : ElemEq(x.ops[i], y.ops[i])

\* bool OpSum::operator==(const OpSum &other) const
SumEq(x, y) ==
    /\ Len(x.strings) = Len(y.strings)
    /\ \A i \in 1..Len(x.strings) : StringEq(x.strings[i], y.strings[i])

\* bool operator==(const shared_ptr<OpExpr> &a, const shared_ptr<OpExpr> &b)
ExprEq(a, b) ==
    IF a.type # b.type THEN FALSE
    ELSE IF a.type = "Zero" THEN TRUE
    ELSE IF a.type = "Elem" THEN ElemEq(a, b)
    ELSE IF a.type = "Prod" THEN StringEq(a, b)
    ELSE SumEq(a, b)

\* control runs off the end of the function: no value is returned
NoReturn == [type |-> "NoReturn"]

\* operator+(const shared_ptr<OpExpr> &a, const shared_ptr<OpExpr> &b)
ExprAdd(a, b) ==
    IF a.type = "Zero" THEN b
    ELSE IF b.type = "Zero" THEN a
    ELSE IF a.type = "Elem" THEN
        IF b.type = "Elem" THEN OpSum(<<StringOf(a), StringOf(b)>>)
        ELSE IF b.type = "Sum" THEN OpSum(<<StringOf(a)>> \o b.strings)
        ELSE NoReturn
    ELSE IF a.type = "Prod" THEN
        IF b.type = "Sum" THEN OpSum(<<a>> \o b.strings)
        ELSE IF b.type = "Prod" THEN OpSum(<<a, b>>)
        ELSE NoReturn
    ELSE IF a.type = "Sum" THEN
        IF b.type = "Elem" THEN OpSum(Append(a.strings, StringOf(b)))
        ELSE IF b.type = "Prod" THEN OpSum(Append(a.strings, b))
        ELSE IF b.type = "Sum" THEN OpSum(a.strings \o b.strings)
        ELSE NoReturn
    ELSE NoReturn

\* operator*(x, d) without the test for d == 0.0
ExprScaleNoZeroTest(x, d) ==
    IF x.type = "Zero" THEN x
    ELSE IF x.type = "Elem"
         THEN OpElement(x.name, x.site_index, x.q_label, FMul(x.factor, d))
    ELSE IF x.type = "Prod" THEN OpString(x.ops, FMul(x.factor, d))
    ELSE OpSum([i \in 1..Len(x.strings) |->
                   OpString(x.strings[i].ops, FMul(x.strings[i].factor, d))])

\* OpElement operator*(double d) const
ElemScale(x, d) == OpElement(x.name, x.site_index, x.q_label, FMul(x.factor, d))

\* OpString operator*(double d) const
StringScale(x, d) == OpString(x.ops, FMul(x.factor, d))

\* OpSum operator*(double d) const
SumScale(x, d) == OpSum([i \in 1..Len(x.strings) |-> StringScale(x.strings[i], d)])

\* operator*(const shared_ptr<OpExpr> &x, double d)
ExprScale(x, d) ==
    IF x.type = "Zero" THEN x
    ELSE IF d.m = 0 THEN Zero
    ELSE IF x.type = "Elem" THEN ElemScale(x, d)
    ELSE IF x.type = "Prod" THEN StringScale(x, d)
    ELSE IF x.type = "Sum" THEN SumScale(x, d)
    ELSE NoReturn

(***************************************************************************)
(* SpecExpr: an expression of any kind has Zero added on either side and   *)
(* is multiplied by the scalars 0.0, 2.0, 3.0 and 6.0.                     *)
(***************************************************************************)
MaxOpSite == 1      \* site indices 0..MaxOpSite
MaxTerms == 2       \* most elements in a string, most strings in a sum
MaxExprOps == 2     \* operations applied to one expression

\* factors: 1, -1, 1/2, the largest mantissa and one that rounding changes
ExprFactors ==
    { FInt(1), FInt(-1), FNorm(1, -1), FInt((2 ^ MantissaBits) - 1),
      FNorm((2 ^ MantissaBits) - 3, -2) }

ExprScalars == { FInt(0), FInt(2), FInt(3), FInt(6) }

\* the label of a creation / destruction operator
ExprLabel(name) == IF name = "C" THEN Label3(1, 1, 0) ELSE Label3(-1, 1, 0)

ExprElems ==
    { OpElement(name, <<s>>, ExprLabel(name), f) :
      name \in {"C", "D"}, s \in 0..MaxOpSite, f \in ExprFactors }

\* sequences of 1..MaxTerms elements of S
SeqsOf(S) == UNION { [1..k -> S] : k \in 1..MaxTerms }

ExprStrings ==
    { OpString(ops, f) :
      ops \in SeqsOf({x \in ExprElems : x.factor = FInt(1)}), f \in ExprFactors }

\* the strings sums are made of: one element on site 0 with any factor, and a pair
SumStrings ==
    { OpString(<<OpElement("C", <<0>>, ExprLabel("C"), FInt(1))>>, f) : f \in ExprFactors }
    \cup { OpString(<<OpElement("C", <<0>>, ExprLabel("C"), FInt(1)),
                      OpElement("D", <<MaxOpSite>>, ExprLabel("D"), FInt(1))>>, FInt(1)) }

ExprInputs ==
    {Zero} \cup ExprElems \cup ExprStrings \cup { OpSum(s) : s \in SeqsOf(SumStrings) }

notExpr == <<alloc, live, last, run, lab, cgs, sti, smi, mpo, life>>

ExprInit ==
    /\ AllocIdle
    /\ lab = Idle /\ cgs = Idle /\ sti = Idle /\ smi = Idle
    /\ mpo = Idle /\ life = Idle
    /\ \E x \in ExprInputs : expr = [pc |-> "expr", x |-> x, y |-> x, hist |-> <<>>]

\* y = y + Zero
ExprAddZero ==
    /\ expr.pc = "expr"
    /\ Len(expr.hist) < MaxExprOps
    /\ expr' = [expr EXCEPT !.y = ExprAdd(expr.y, Zero),
                            !.hist = Append(@, [op |-> "add_zero", d |-> FInt(0)])]
    /\ UNCHANGED notExpr

\* y = Zero + y
ExprZeroAdd ==
    /\ expr.pc = "expr"
    /\ Len(expr.hist) < MaxExprOps
    /\ expr' = [expr EXCEPT !.y = ExprAdd(Zero, expr.y),
                            !.hist = Append(@, [op |-> "zero_add", d |-> FInt(0)])]
    /\ UNCHANGED notExpr

\* y = y * d
ExprTimes ==
    \E d \in ExprScalars :
        /\ expr.pc = "expr"
        /\ Len(expr.hist) < MaxExprOps
        /\ expr' = [expr EXCEPT !.y = ExprScale(expr.y, d),
                                !.hist = Append(@, [op |-> "times", d |-> d])]
        /\ UNCHANGED notExpr

ExprNext == ExprAddZero \/ ExprZeroAdd \/ ExprTimes

SpecExpr == ExprInit /\ [][ExprNext]_vars

\* the expression was multiplied by the scalars ds, in this order, and nothing else
Scaled(ds) ==
    /\ expr.pc = "expr"
    /\ Len(expr.hist) = Len(ds)
    /\ \A k \in 1..Len(ds) : expr.hist[k].op = "times" /\ expr.hist[k].d = FInt(ds[k])

\* one operation op was applied
Did(op) == expr.pc = "expr" /\ Len(expr.hist) = 1 /\ expr.hist[1].op = op

\* the names and site indices of the elements of a string
StringShape(x) == [k \in 1..Len(x.ops) |-> <<x.ops[k].name, x.ops[k].site_index>>]

\* the kind of an expression with its operator names and site indices
Shape(x) ==
    IF x.type = "Elem" THEN <<"Elem", <<x.name, x.site_index>> >>
    ELSE IF x.type = "Prod" THEN <<"Prod", StringShape(x)>>
    ELSE IF x.type = "Sum"
         THEN <<"Sum", [i \in 1..Len(x.strings) |-> StringShape(x.strings[i])]>>
    ELSE <<x.type>>

\* the scalar factors of an expression
Factors(x) ==
    IF x.type \in {"Elem", "Prod"} THEN <<x.factor>>
    ELSE IF x.type = "Sum" THEN [i \in 1..Len(x.strings) |-> x.strings[i].factor]
    ELSE <<>>

(* C10: for every OpExpr x (Zero, Elem, Prod, Sum): x + Zero and Zero + x  *)
(* are structurally equal to x; x * 0.0 is Zero; and (x * 2.0) * 3.0 is    *)
(* structurally equal to x * 6.0: same kind, same operator names and site  *)
(* indices, equal factors.                                                 *)
C10_IdentityLaws ==
    /\ (Did("add_zero") \/ Did("zero_add")) =>
           expr.y = expr.x /\ ExprEq(expr.y, expr.x)
    /\ Scaled(<<0>>) => expr.y = Zero /\ expr.y.type = "Zero"
    /\ Scaled(<<2, 3>>) =>
           /\ ExprEq(expr.y, ExprScale(expr.x, FInt(6)))
           /\ Shape(expr.y) = Shape(expr.x)
           /\ Shape(ExprScale(expr.x, FInt(6))) = Shape(expr.x)
           /\ Factors(expr.y) = Factors(ExprScale(expr.x, FInt(6)))
           /\ Factors(expr.y) =
                  [k \in 1..Len(Factors(expr.x)) |-> FMul(Factors(expr.x)[k], FInt(6))]

\* a sum of two strings, one with a factor whose multiples are rounded, times 2.0 times 3.0
C10_Witness ==
    /\ Scaled(<<2, 3>>)
    /\ expr.x.type = "Sum" /\ Len(expr.x.strings) = 2
    /\ expr.x.strings[1].factor = FNorm((2 ^ MantissaBits) - 3, -2)
    /\ expr.y.strings[1].factor #
           FMulExact(expr.x.strings[1].factor, FNorm(6, 0))
    /\ ExprEq(expr.y, ExprScale(expr.x, FInt(6)))

(***************************************************************************)
(* The lifecycle of part_002 on the classes of quantum.hpp: FCIDUMP::read, *)
(* Hamiltonian, MPSInfo and set_bond_dimension, QCMPO, and the four        *)
(* deallocate calls.  Both arenas are StackAllocators; every object keeps  *)
(* the index blk of its pointer in the arena's table ptr.                  *)
(***************************************************************************)
\* the double x + y
FAdd(x, y) ==
    IF x.m = 0 THEN y
    ELSE IF y.m = 0 THEN x
    ELSE IF x.e - y.e > 2 * MantissaBits + 2 THEN x
    ELSE IF y.e - x.e > 2 * MantissaBits + 2 THEN y
    ELSE LET e0 == Min(x.e, y.e)
         IN FRound(x.m * (2 ^ (x.e - e0)) + y.m * (2 ^ (y.e - e0)), e0)

\* the double -x
FNeg(x) == [m |-> -x.m, e |-> x.e]

\* the double x - y
FSub(x, y) == FAdd(x, FNeg(y))

\* the double 0.5
FHalf == [m |-> 1, e |-> -1]

\* sqrt(i) for 1 < i < 4: the value of the mantissa nearest to the root
FSqrt(i) ==
    LET s == 4 * i * (4 ^ (MantissaBits - 1))
        q == CHOOSE q \in 1..(2 ^ MantissaBits) :
                 (2 * q - 1) * (2 * q - 1) < s /\ s < (2 * q + 1) * (2 * q + 1)
    IN FNorm(q, -(MantissaBits - 1))

\* abs(x) < TINY: every nonzero value of the model lies far above 1E-20
Tiny(x) == x.m = 0

\* a null pointer
NullPtr == -1

\* an arena with the pointers its users hold: ptr[blk] is the data, quanta
\* or sqrt_fact field of the object that was given the index blk
Arena(size) ==
    [a |-> [size |-> size, used |-> 0, shift |-> 0], ptr |-> <<>>, out |-> "ok"]

\* the calls an operation makes on an arena
EvAllocate(n) == [op |-> "allocate", blk |-> 0, n |-> n, new_n |-> 0]
EvNull == [op |-> "null", blk |-> 0, n |-> 0, new_n |-> 0]
EvDeallocate(blk, n) == [op |-> "deallocate", blk |-> blk, n |-> n, new_n |-> 0]
EvReallocate(blk, n, new_n) == [op |-> "reallocate", blk |-> blk, n |-> n, new_n |-> new_n]
EvAssert(ok) == [op |-> "assert", blk |-> 0, n |-> IF ok THEN 1 ELSE 0, new_n |-> 0]
EvAssertNull(blk) == [op |-> "assert_null", blk |-> blk, n |-> 0, new_n |-> 0]

\* one call; print_trace() and a failed assert end the process
ArenaStep(s, ev) ==
    IF s.out # "ok" THEN s
    ELSE IF ev.op = "allocate" THEN
        LET r == Allocate(s.a, ev.n)
        IN [a |-> r.a, ptr |-> Append(s.ptr, r.ret), out |-> r.out]
    ELSE IF ev.op = "null" THEN [s EXCEPT !.ptr = Append(@, NullPtr)]
    ELSE IF ev.op = "deallocate" THEN
        LET r == Deallocate(s.a, s.ptr[ev.blk], ev.n)
        IN [a |-> r.a, ptr |-> [s.ptr EXCEPT ![ev.blk] = NullPtr],
            out |-> IF r.out = "fatal_order" THEN r.out ELSE "ok"]
    ELSE IF ev.op = "reallocate" THEN
        LET r == Reallocate(s.a, s.ptr[ev.blk], ev.n, ev.new_n)
        IN [a |-> r.a, ptr |-> [s.ptr EXCEPT ![ev.blk] = r.ret], out |-> "ok"]
    ELSE IF ev.op = "assert" THEN [s EXCEPT !.out = IF ev.n = 1 THEN "ok" ELSE "assert"]
    ELSE [s EXCEPT !.out = IF s.ptr[ev.blk] = NullPtr THEN "ok" ELSE "assert"]

\* the calls of one operation, in order: the first half, then the rest;
\* nothing runs after the process has ended
RECURSIVE ArenaRun(_, _)
ArenaRun(s, evs) ==
    IF s.out # "ok" \/ evs = <<>> THEN s
    ELSE IF Len(evs) = 1 THEN ArenaStep(s, evs[1])
    ELSE ArenaRun(ArenaRun(s, SubSeq(evs, 1, Len(evs) \div 2)),
                  SubSeq(evs, (Len(evs) \div 2) + 1, Len(evs)))

\* for (k = lo; k <= hi; k++) append F(k)
SeqFor(lo, hi, F(_)) == Flatten(<<>> \o [nth \in 1..(hi - lo + 1) |-> F(lo + nth - 1)])

\* for (k = hi; k >= lo; k--) append F(k)
SeqDown(hi, lo, F(_)) == Flatten(<<>> \o [nth \in 1..(hi - lo + 1) |-> F(hi - nth + 1)])

\* a uint32_t of the model as a number
Narrow(w) == w[1] * Half + w[2]

(***************************************************************************)
(* FCIDUMP (quantum.hpp 219-251, 272-426), restricted integrals (no iuhf). *)
(***************************************************************************)
\* find_index(i, j)
FindIndex(i, j) ==
    IF i < j THEN ((j * (j + 1)) \div 2) + i ELSE ((i * (i + 1)) \div 2) + j

\* TInt::size()
TIntSize(n) == (n * (n + 1)) \div 2

\* V8Int::size()
V8IntSize(n) == (TIntSize(n) * (TIntSize(n) + 1)) \div 2

\* V8Int::find_index(i, j, k, l)
V8Index(i, j, k, l) == FindIndex(FindIndex(i, j), FindIndex(k, l))

\* the value the loop over int_val leaves in a cell: that of the last line
\* among at, or 0.0 after clear()
LastOf(lines, at) ==
    IF at = {} THEN FInt(0)
    ELSE lines[CHOOSE k \in at : \A j \in at : j <= k].val

\* void read(const string &filename): the object once the file is stored;
\* blk is the index of data
FcidumpRead(file, blk) ==
    LET lines == file.lines
        x(k) == lines[k].idx
        all == 1..Len(lines)
        es == {k \in all : x(k)[1] + x(k)[2] + x(k)[3] + x(k)[4] = 0}
        tl == {k \in all \ es : x(k)[3] + x(k)[4] = 0}
        vl == (all \ es) \ tl
    IN [params |-> [norb |-> file.norb, nelec |-> file.nelec, ms2 |-> file.ms2,
                    isym |-> file.isym, orbsym |-> file.orbsym],
        e |-> LastOf(lines, es),
        ts |-> <<>> \o [p \in 1..TIntSize(file.norb) |->
                  LastOf(lines, {k \in tl : FindIndex(x(k)[1] - 1, x(k)[2] - 1) + 1 = p})],
        vs |-> <<>> \o [p \in 1..V8IntSize(file.norb) |->
                  LastOf(lines, {k \in vl : V8Index(x(k)[1] - 1, x(k)[2] - 1,
                                                   x(k)[3] - 1, x(k)[4] - 1) + 1 = p})],
        total_memory |-> TIntSize(file.norb) + V8IntSize(file.norb),
        blk |-> blk]

\* double t(i, j) and double v(i, j, k, l) of the Hamiltonian
IntT(fd, i, j) == fd.ts[FindIndex(i, j) + 1]
IntV(fd, i, j, k, l) == fd.vs[V8Index(i, j, k, l) + 1]

(***************************************************************************)
(* Hamiltonian (quantum.hpp 1961-2395), su2.                               *)
(***************************************************************************)
NSqrtFact == 100    \* make_shared<CG>(100, 10)

\* (length << 1) - (length >> 1): the words of a StateInfo of length n
StateInfoSize(n) == 2 * n - (n \div 2)

\* (length << 1) + length: the words of a SparseMatrixInfo of length n
MatrixInfoSize(n) == 2 * n + n

\* the elements of a set of labels in the order of operator<
SortedLabelSet(S) ==
    [k \in 1..Cardinality(S) |->
        CHOOSE q \in S : Cardinality({p \in S : LabelLess(p, q)}) = k - 1]

\* basis[i] after sort_states()
SiteBasis(vaccum, i) ==
    StateOf(SortSlots(<< [q |-> vaccum, n |-> 1], [q |-> Label3(1, 1, i), n |-> 1],
                         [q |-> Label3(2, 0, 0), n |-> 1] >>))

\* the keys of the map info in init_site_ops, in the order of the map
SiteOpKeys(vaccum, i) ==
    SortedLabelSet({vaccum, Label3(1, 1, i), Label3(-1, 1, i)}
                   \cup {Label3(n, s, 0) : n \in {-2, 0, 2}, s \in {0, 2}})

\* info[p.first].initialize(basis[i], basis[i], p.first, p.first.is_fermion())
\* for the keys of the map, the j-th at the index blk0 + j of the pointer table
SiteOpInfosOf(keys, b, blk0) ==
    [j \in 1..Len(keys) |->
        [q |-> keys[j],
         info |-> Initialize(b, b, keys[j], LabelTwos(keys[j]) = 1, FALSE, 0),
         blk |-> blk0 + j]]

\* site_op_infos[i]: every key with its initialized SparseMatrixInfo
SiteOpInfos(vaccum, i, blk0) ==
    SiteOpInfosOf(SiteOpKeys(vaccum, i), SiteBasis(vaccum, i), blk0)

\* find_site_op_info(q, i_sym): the index in site_op_infos[i_sym], 0 for nullptr
FindSiteOpInfo(infos, q, i_sym) ==
    LET v == infos[i_sym + 1]
        p == Cardinality({j \in 1..Len(v) : LabelLess(v[j].q, q)})
    IN IF p = Len(v) \/ v[p + 1].q # q THEN 0 ELSE p + 1

\* a SparseMatrix: n and total_memory of its info, the index blk of data
\* (0 for a matrix that never got an info), own for data it allocated itself
SparseMatrix(n, total_memory, blk, own, factor) ==
    [n |-> n, total_memory |-> total_memory, blk |-> blk, own |-> own,
     factor |-> factor]

\* the SparseMatrix zero of get_site_ops: no info, factor 0.0
ZeroMatrix == SparseMatrix(-1, 0, 0, FALSE, FInt(0))

\* info->n and info->get_total_memory() of site_op_infos[i_sym][j]
InfoN(infos, i_sym, j) == infos[i_sym + 1][j].info.n
InfoMemory(infos, i_sym, j) == Narrow(GetTotalMemory(infos[i_sym + 1][j].info))

\* enum struct OpNames
OpNamesOrder ==
    << "H", "I", "N", "NN", "NUD", "C", "D", "R", "RD", "A", "AD", "P", "PD",
       "B", "Q", "PDM1" >>

NameOrd(name) == CHOOSE k \in 1..Len(OpNamesOrder) : OpNamesOrder[k] = name

\* vector<uint8_t>::operator<
RECURSIVE IndexLess(_, _)
IndexLess(a, b) ==
    IF b = <<>> THEN FALSE
    ELSE IF a = <<>> THEN TRUE
    ELSE IF Head(a) # Head(b) THEN Head(a) < Head(b)
    ELSE IndexLess(Tail(a), Tail(b))

\* x < y for doubles
FLess(x, y) ==
    LET e0 == Min(x.e, y.e)
    IN x.m * (2 ^ (x.e - e0)) < y.m * (2 ^ (y.e - e0))

\* bool OpElement::operator<(const OpElement &other) const
ElemLess(x, y) ==
    IF x.name # y.name THEN NameOrd(x.name) < NameOrd(y.name)
    ELSE IF x.site_index # y.site_index THEN IndexLess(x.site_index, y.site_index)
    ELSE IF x.factor # y.factor THEN FLess(x.factor, y.factor)
    ELSE FALSE

\* ops[x] = nullptr on a map ordered by op_expr_less: the keys after it; a
\* key equivalent to x (neither is less than the other) stays as it is
MapInsert(keys, x) ==
    IF \E k \in 1..Len(keys) : ElemEq(keys[k], x) THEN keys
    ELSE LET at == Cardinality({k \in 1..Len(keys) : ElemLess(keys[k], x)})
         IN SubSeq(keys, 1, at) \o <<x>> \o SubSeq(keys, at + 1, Len(keys))

\* the keys of a map after ops[x] = nullptr ran for the elements of xs in
\* order: the first half, then the rest, onto the keys made so far
RECURSIVE MapInsertAll(_, _)
MapInsertAll(keys, xs) ==
    IF Len(keys) + Len(xs) = Len(keys) THEN keys
    ELSE IF Len(xs) = 1 THEN MapInsert(keys, xs[1])
    ELSE MapInsertAll(MapInsertAll(keys, SubSeq(xs, 1, Len(xs) \div 2)),
                      SubSeq(xs, (Len(xs) \div 2) + 1, Len(xs)))

\* lower_bound on a vector ordered by op_expr_less: the index, 0 for nullptr
FindOp(v, x) ==
    LET p == Cardinality({k \in 1..Len(v) : ElemLess(v[k].op, x)})
    IN IF p = Len(v) \/ ~ElemEq(v[p + 1].op, x) THEN 0 ELSE p + 1

\* op_prims in the order init_site_ops allocates them: name, s, q_label
OpPrims ==
    << <<"I", 0, Label3(0, 0, 0)>>, <<"N", 0, Label3(0, 0, 0)>>,
       <<"NN", 0, Label3(0, 0, 0)>>, <<"C", 0, Label3(1, 1, 0)>>,
       <<"D", 0, Label3(-1, 1, 0)>>,
       <<"A", 0, Label3(2, 0, 0)>>, <<"AD", 0, Label3(-2, 0, 0)>>,
       <<"B", 0, Label3(0, 0, 0)>>,
       <<"A", 1, Label3(2, 2, 0)>>, <<"AD", 1, Label3(-2, 2, 0)>>,
       <<"B", 1, Label3(0, 2, 0)>>,
       <<"R", 0, Label3(-1, 1, 0)>>, <<"RD", 0, Label3(1, 1, 0)>> >>

\* op_prims[s][name]: the index in OpPrims
PrimIndex(name, s) ==
    CHOOSE k \in 1..Len(OpPrims) : OpPrims[k][1] = name /\ OpPrims[k][2] = s

\* op_prims[s][name]->deallocate() in the order of Hamiltonian::deallocate
PrimFreeOrder ==
    << <<"RD", 0>>, <<"R", 0>>, <<"B", 1>>, <<"AD", 1>>, <<"A", 1>>,
       <<"B", 0>>, <<"AD", 0>>, <<"A", 0>>, <<"D", 0>>, <<"C", 0>>,
       <<"NN", 0>>, <<"N", 0>>, <<"I", 0>> >>

\* the keys of ops[i] in init_site_ops, in the order of the inserts
SiteNormKeys(vaccum, orb_sym, i) ==
    << OpElement("I", <<>>, vaccum, FInt(1)), OpElement("N", <<>>, vaccum, FInt(1)),
       OpElement("NN", <<>>, vaccum, FInt(1)) >> \o
    SeqFor(0, Len(orb_sym) - 1, LAMBDA m :
        IF orb_sym[m + 1] # i THEN <<>>
        ELSE << OpElement("C", <<m>>, Label3(1, 1, orb_sym[m + 1]), FInt(1)),
                OpElement("D", <<m>>, Label3(-1, 1, orb_sym[m + 1]), FInt(1)) >> \o
             SeqFor(0, 1, LAMBDA s :
                << OpElement("A", <<m, m, s>>, Label3(2, s * 2, 0), FInt(1)),
                   OpElement("AD", <<m, m, s>>, Label3(-2, s * 2, 0), FInt(1)),
                   OpElement("B", <<m, m, s>>, Label3(0, s * 2, 0), FInt(1)) >>))

\* site_norm_ops[i]: p.second->allocate(find_site_op_info(op.q_label, i), data)
\* with the data of a primitive; j = 0 stands for the nullptr info, on
\* which allocate would fault
SiteNormOp(infos, prims, i, op, j) ==
    [op |-> op,
     mat |-> IF j = 0 THEN ZeroMatrix
             ELSE SparseMatrix(InfoN(infos, i, j), InfoMemory(infos, i, j),
                               IF InfoMemory(infos, i, j) = 0 THEN 0
                               ELSE prims[PrimIndex(op.name,
                                        IF op.name \in {"A", "AD", "B"}
                                        THEN op.site_index[Len(op.site_index)]
                                        ELSE 0)].mat.blk,
                               FALSE, FInt(1))]

\* site_norm_ops[i] for the keys of ops[i] in the order of the map
SiteNormOpsOf(infos, prims, i, keys) ==
    [k \in 1..Len(keys) |->
        SiteNormOp(infos, prims, i, keys[k],
                   FindSiteOpInfo(infos, keys[k].q_label, i))]

\* site_norm_ops[i] of init_site_ops
SiteNormOps(vaccum, orb_sym, infos, prims, i) ==
    SiteNormOpsOf(infos, prims, i,
                  MapInsertAll(<<>>, SiteNormKeys(vaccum, orb_sym, i)))

\* n_syms = *max_element(orb_sym.begin(), orb_sym.end()) + 1
NSyms(orb_sym) == (CHOOSE x \in {orb_sym[k] : k \in 1..Len(orb_sym)} :
                      \A k \in 1..Len(orb_sym) : orb_sym[k] <= x) + 1

\* site_op_infos after init_site_ops: the infos of irrep i follow those of
\* the irreps before it in the pointer table of ialloc
HamiltonianInfos(vaccum, n_syms, ib) ==
    [i1 \in 1..n_syms |->
        SiteOpInfos(vaccum, i1 - 1,
                    ib + n_syms +
                    SumSeq([k \in 1..(i1 - 1) |-> Len(SiteOpKeys(vaccum, k - 1))]))]

\* op_prims[s][name]->allocate(find_site_op_info(q_label, 0)) in init_site_ops
HamiltonianPrim(infos, db, k, j) ==
    [name |-> OpPrims[k][1], s |-> OpPrims[k][2],
     mat |-> SparseMatrix(InfoN(infos, 0, j), InfoMemory(infos, 0, j),
                          db + 1 + k, TRUE, FInt(1))]

\* op_prims in the order init_site_ops allocates them
HamiltonianPrims(infos, db) ==
    [k \in 1..Len(OpPrims) |->
        HamiltonianPrim(infos, db, k, FindSiteOpInfo(infos, OpPrims[k][3], 0))]

\* the members after the constructor and init_site_ops
HamiltonianMembers(vaccum, target, norb, orb_sym, ib, db, n_syms, infos, prims) ==
    [vaccum |-> vaccum, target |-> target, n_sites |-> norb, n_syms |-> n_syms,
     orb_sym |-> orb_sym,
     basis |-> [i1 \in 1..n_syms |->
                   [table |-> SiteBasis(vaccum, i1 - 1), blk |-> ib + i1]],
     site_op_infos |-> infos,
     cg |-> [n_sf |-> NSqrtFact, blk |-> db + 1],
     op_prims |-> prims,
     site_norm_ops |-> [i1 \in 1..n_syms |->
                           SiteNormOps(vaccum, orb_sym, infos, prims, i1 - 1)]]

\* the object, given n_syms and site_op_infos
HamiltonianWith(vaccum, target, norb, orb_sym, ib, db, n_syms, infos) ==
    HamiltonianMembers(vaccum, target, norb, orb_sym, ib, db, n_syms, infos,
                       HamiltonianPrims(infos, db))

\* Hamiltonian(vaccum, target, norb, su2, fcidump, orb_sym): the object;
\* ib and db are the lengths of the pointer tables of the two arenas
Hamiltonian(vaccum, target, norb, orb_sym, ib, db) ==
    HamiltonianWith(vaccum, target, norb, orb_sym, ib, db, NSyms(orb_sym),
                    HamiltonianInfos(vaccum, NSyms(orb_sym), ib))

\* the calls of the constructor on ialloc: basis[i].allocate(3), then
\* SparseMatrixInfo::initialize for every key of every irrep
HamiltonianIntCalls(h) ==
    SeqFor(1, h.n_syms, LAMBDA i1 : <<EvAllocate(StateInfoSize(3))>>) \o
    SeqFor(1, h.n_syms, LAMBDA i1 :
        SeqFor(1, Len(h.site_op_infos[i1]), LAMBDA j :
            <<EvAllocate(MatrixInfoSize(h.site_op_infos[i1][j].info.n))>>))

\* SparseMatrix::allocate(info): no call when total_memory is 0
MatrixAllocate(mat) ==
    IF mat.total_memory = 0 THEN EvNull ELSE EvAllocate(mat.total_memory)

\* SparseMatrix::deallocate()
MatrixDeallocate(mat) ==
    IF mat.total_memory = 0 THEN EvAssertNull(mat.blk)
    ELSE EvDeallocate(mat.blk, mat.total_memory)

\* the calls of the constructor on dalloc: cg->initialize(), then op_prims
HamiltonianDoubleCalls(h) ==
    <<EvAllocate(h.cg.n_sf * 2)>> \o
    SeqFor(1, Len(h.op_prims), LAMBDA k : <<MatrixAllocate(h.op_prims[k].mat)>>)

\* deallocate() that frees op_prims in the order they were allocated
HamiltonianFreeDoubleForward(h) ==
    SeqFor(1, Len(h.op_prims), LAMBDA k : <<MatrixDeallocate(h.op_prims[k].mat)>>) \o
    <<EvAssert(h.cg.n_sf # 0), EvDeallocate(h.cg.blk, h.cg.n_sf * 2)>>

\* void deallocate(): the calls on dalloc
HamiltonianFreeDouble(h) ==
    SeqFor(1, Len(PrimFreeOrder), LAMBDA k :
        <<MatrixDeallocate(
            h.op_prims[PrimIndex(PrimFreeOrder[k][1], PrimFreeOrder[k][2])].mat)>>) \o
    <<EvAssert(h.cg.n_sf # 0), EvDeallocate(h.cg.blk, h.cg.n_sf * 2)>>

\* void deallocate(): the calls on ialloc
HamiltonianFreeInt(h) ==
    SeqDown(h.n_syms, 1, LAMBDA i1 :
        SeqDown(Len(h.site_op_infos[i1]), 1, LAMBDA j :
            << EvAssert(h.site_op_infos[i1][j].info.n # -1),
               EvDeallocate(h.site_op_infos[i1][j].blk,
                            MatrixInfoSize(h.site_op_infos[i1][j].info.n)) >>)) \o
    SeqDown(h.n_syms, 1, LAMBDA i1 :
        << EvAssert(Len(h.basis[i1].table.quanta) # 0),
           EvDeallocate(h.basis[i1].blk, StateInfoSize(Len(h.basis[i1].table.quanta))) >>)

(***************************************************************************)
(* MPSInfo (quantum.hpp 1724-1846) with the StateInfo calls it makes.      *)
(***************************************************************************)
\* the slots of a table
SlotsOf(t) == [k \in 1..Len(t.quanta) |-> [q |-> t.quanta[k], n |-> t.n_states[k]]]

\* StateInfo(SpinLabel q)
SingleState(q) == [quanta |-> <<q>>, n_states |-> <<1>>, n_states_total |-> 1]

\* nc of tensor_product: the sum of count() over the pairs of labels
TensorCount(a, b) ==
    SumSeq([p \in 1..(Len(a.quanta) * Len(b.quanta)) |->
               LabelCount(LabelAdd(a.quanta[((p - 1) \div Len(b.quanta)) + 1],
                                   b.quanta[((p - 1) % Len(b.quanta)) + 1]))])

\* the calls of tensor_product on ialloc: c.allocate(nc), and the
\* reallocate of c.collect(target); blk is the index c gets
TensorProductCalls(a, b, target, blk) ==
    << EvAllocate(StateInfoSize(TensorCount(a, b))),
       EvReallocate(blk, StateInfoSize(TensorCount(a, b)),
                    StateInfoSize(Len(TensorProduct(a, b, target).quanta))) >>

\* void collect() with the default target 0x7FFFFFFF
CollectAll(t) == Collect(SlotsOf(t), <<127, 255, 255, 255>>)

\* x of the loop of filter when only the first label of target - q is looked up
FirstLabelStates(b, q, target) ==
    IF FindState(b.quanta, LabelIndex(LabelAdd(target, LabelNeg(q)), 0)) = -1
    THEN 0
    ELSE b.n_states[FindState(b.quanta, LabelIndex(LabelAdd(target, LabelNeg(q)), 0)) + 1]

\* a table with the states ns
WithStates(a, ns) == [quanta |-> a.quanta, n_states |-> ns, n_states_total |-> SumSeq(ns)]

\* the loop of filter looking up only the first label of target - a.quanta[i]
FilterSideFirstLabel(a, b, target) ==
    WithStates(a, [i \in 1..Len(a.quanta) |->
                      Min(a.n_states[i], FirstLabelStates(b, a.quanta[i], target))])

\* the first half of filter: a.n_states cut to what b can complete to target
FilterSide(a, b, target) ==
    LET x == [i \in 1..Len(a.quanta) |->
                 LET qb == LabelAdd(target, LabelNeg(a.quanta[i]))
                 IN SumSeq([k \in 1..LabelCount(qb) |->
                        LET idx == FindState(b.quanta, LabelIndex(qb, k - 1))
                        IN IF idx = -1 THEN 0 ELSE b.n_states[idx + 1]])]
        ns == [i \in 1..Len(a.quanta) |-> Min(x[i], a.n_states[i])]
    IN [quanta |-> a.quanta, n_states |-> ns, n_states_total |-> SumSeq(ns)]

\* static StateInfo filter(StateInfo &a, StateInfo &b, SpinLabel target)
Filter(a, b, target) ==
    LET a2 == FilterSide(a, b, target)
    IN <<a2, FilterSide(b, a2, target)>>

\* left_dims_fci[0..k] after the first loop of the constructor
RECURSIVE LeftProducts(_, _, _)
LeftProducts(h, target, k) ==
    IF k = 0 THEN <<SingleState(h.vaccum)>>
    ELSE LET l == LeftProducts(h, target, k - 1)
         IN Append(l, TensorProduct(l[k], h.basis[h.orb_sym[k] + 1].table, target))

\* right_dims_fci[k..n_sites] after the second loop of the constructor
RECURSIVE RightProducts(_, _, _)
RightProducts(h, target, k) ==
    IF k = h.n_sites THEN <<SingleState(h.vaccum)>>
    ELSE LET r == RightProducts(h, target, k + 1)
         IN <<>> \o [j \in 1..(Len(r) + 1) |->
                IF j = 1 THEN TensorProduct(h.basis[h.orb_sym[k + 1] + 1].table, r[1], target)
                ELSE r[j - 1]]

\* MPSInfo(n_sites, vaccum, target, basis, orbsym): the object; ib is the
\* length of the pointer table of ialloc
MPSInfo(h, target, ib) ==
    LET n == h.n_sites
        l0 == LeftProducts(h, target, n)
        r0 == RightProducts(h, target, 0)
        f == [i \in 1..(n + 1) |-> Filter(l0[i], r0[i], target)]
    IN [n_sites |-> n, vaccum |-> h.vaccum, target |-> target,
        left_products |-> l0, right_products |-> r0,
        left_dims_fci |-> [i \in 1..(n + 1) |->
                              [table |-> CollectAll(f[i][1]), blk |-> ib + i]],
        right_dims_fci |-> [i \in 1..(n + 1) |->
                               [table |-> CollectAll(f[i][2]),
                                blk |-> ib + (n + 1) + (n + 2 - i)]],
        left_dims |-> <<>>, right_dims |-> <<>>, bond_dim |-> 0]

\* the calls of the constructor on ialloc
MPSInfoCalls(h, info, ib) ==
    LET n == h.n_sites
        l0 == info.left_products
        r0 == info.right_products
    IN <<EvAllocate(StateInfoSize(1))>> \o
       SeqFor(0, n - 1, LAMBDA i :
           TensorProductCalls(l0[i + 1], h.basis[h.orb_sym[i + 1] + 1].table,
                              info.target, ib + i + 2)) \o
       <<EvAllocate(StateInfoSize(1))>> \o
       SeqDown(n - 1, 0, LAMBDA i :
           TensorProductCalls(h.basis[h.orb_sym[i + 1] + 1].table, r0[i + 2],
                              info.target, ib + (n + 1) + (n + 1 - i))) \o
       SeqFor(0, n, LAMBDA i :
           <<EvReallocate(info.left_dims_fci[i + 1].blk,
                          StateInfoSize(Len(l0[i + 1].quanta)),
                          StateInfoSize(Len(info.left_dims_fci[i + 1].table.quanta)))>>) \o
       SeqDown(n, 0, LAMBDA i :
           <<EvReallocate(info.right_dims_fci[i + 1].blk,
                          StateInfoSize(Len(r0[i + 1].quanta)),
                          StateInfoSize(Len(info.right_dims_fci[i + 1].table.quanta)))>>)

\* the rescaling of n_states to the bond dimension m
Truncate(t, m) ==
    IF t.n_states_total > m
    THEN LET ns == [k \in 1..Len(t.quanta) |->
                       Min(((t.n_states[k] * m) + t.n_states_total - 1)
                               \div t.n_states_total, U16Max)]
         IN [t EXCEPT !.n_states = ns, !.n_states_total = SumSeq(ns)]
    ELSE t

\* n_states of d cut to what the product t holds
Cap(d, t) ==
    LET ns == [k \in 1..Len(d.quanta) |->
                  LET tk == FindState(t.quanta, d.quanta[k])
                  IN IF tk = -1 THEN 0
                     ELSE IF d.n_states[k] > t.n_states[tk + 1] THEN t.n_states[tk + 1]
                     ELSE d.n_states[k]]
    IN [d EXCEPT !.n_states = ns, !.n_states_total = SumSeq(ns)]

\* the product t of iteration i of the left loop, given left_dims before it
LeftT(h, target, ld, m, i) ==
    TensorProduct(Truncate(ld[i + 2], m), h.basis[h.orb_sym[i + 2] + 1].table, target)

\* left_dims[0..n_sites] after the iterations 0..k-1 of the left loop
RECURSIVE LeftDims(_, _, _, _, _)
LeftDims(h, target, ld0, m, k) ==
    IF k = 0 THEN ld0
    ELSE LET ld == LeftDims(h, target, ld0, m, k - 1)
             i == k - 1
             ld1 == [ld EXCEPT ![i + 2] = Truncate(@, m)]
         IN IF i # h.n_sites - 1
            THEN [ld1 EXCEPT ![i + 3] = Cap(@, LeftT(h, target, ld, m, i))]
            ELSE ld1

\* the product t of iteration i of the right loop, given right_dims before it
RightT(h, target, rd, m, i) ==
    TensorProduct(h.basis[h.orb_sym[i] + 1].table, Truncate(rd[i + 1], m), target)

\* right_dims[0..n_sites] after the iterations n_sites-1..k of the right loop
RECURSIVE RightDims(_, _, _, _, _)
RightDims(h, target, rd0, m, k) ==
    IF k = h.n_sites THEN rd0
    ELSE LET rd == RightDims(h, target, rd0, m, k + 1)
             i == k
             rd1 == [rd EXCEPT ![i + 1] = Truncate(@, m)]
         IN IF i # 0
            THEN [rd1 EXCEPT ![i] = Cap(@, RightT(h, target, rd, m, i))]
            ELSE rd1

\* left_dims and right_dims as set_bond_dimension first fills them
LeftDims0(info) ==
    [i \in 1..(info.n_sites + 1) |->
        IF i = 1 THEN SingleState(info.vaccum) ELSE info.left_dims_fci[i].table]

RightDims0(info) ==
    [i \in 1..(info.n_sites + 1) |->
        IF i = info.n_sites + 1 THEN SingleState(info.vaccum)
        ELSE info.right_dims_fci[i].table]

\* the tables of set_bond_dimension(m): left_dims and right_dims at its end,
\* and for every product t of the two loops its first or second factor (the
\* truncated neighbour) and t itself; la[i + 1] and lt[i + 1] belong to the
\* iteration i of the left loop, ra[i] and rt[i] to that of the right loop
BondDims(h, info, m) ==
    LET n == info.n_sites
        ld0 == LeftDims0(info)
        rd0 == RightDims0(info)
    IN [ld |-> LeftDims(h, info.target, ld0, m, n),
        rd |-> RightDims(h, info.target, rd0, m, 0),
        la |-> <<>> \o [i1 \in 1..(n - 1) |->
                   Truncate(LeftDims(h, info.target, ld0, m, i1 - 1)[i1 + 1], m)],
        lt |-> <<>> \o [i1 \in 1..(n - 1) |->
                   LeftT(h, info.target, LeftDims(h, info.target, ld0, m, i1 - 1), m,
                         i1 - 1)],
        ra |-> <<>> \o [i \in 1..(n - 1) |->
                   Truncate(RightDims(h, info.target, rd0, m, i + 1)[i + 1], m)],
        rt |-> <<>> \o [i \in 1..(n - 1) |->
                   RightT(h, info.target, RightDims(h, info.target, rd0, m, i + 1), m, i)]]

\* void set_bond_dimension(uint16_t m): the object; the products t take
\* the indices between those of left_dims and right_dims, and after them
SetBondDimension(info, d, m, ib) ==
    LET n == info.n_sites
    IN [info EXCEPT
           !.bond_dim = m,
           !.left_dims = [i \in 1..(n + 1) |-> [table |-> d.ld[i], blk |-> ib + i]],
           !.right_dims = [i \in 1..(n + 1) |->
                              [table |-> d.rd[i],
                               blk |-> ib + (n + 1) + (n - 1) + (n + 2 - i)]]]

\* StateInfo::deallocate() of a table of length n held at blk
StateInfoDeallocate(n, blk) ==
    <<EvAssert(n # 0), EvDeallocate(blk, StateInfoSize(n))>>

\* the calls of set_bond_dimension on ialloc
SetBondDimensionCalls(h, info, d, ib) ==
    LET n == info.n_sites
        ld0 == LeftDims0(info)
        rd0 == RightDims0(info)
    IN SeqFor(0, n, LAMBDA i : <<EvAllocate(StateInfoSize(Len(ld0[i + 1].quanta)))>>) \o
       SeqFor(0, n - 2, LAMBDA i :
           TensorProductCalls(d.la[i + 1], h.basis[h.orb_sym[i + 2] + 1].table,
                              info.target, ib + (n + 1) + (i + 1)) \o
           StateInfoDeallocate(Len(d.lt[i + 1].quanta), ib + (n + 1) + (i + 1))) \o
       SeqDown(n, 0, LAMBDA i : <<EvAllocate(StateInfoSize(Len(rd0[i + 1].quanta)))>>) \o
       SeqDown(n - 1, 1, LAMBDA i :
           TensorProductCalls(h.basis[h.orb_sym[i] + 1].table, d.ra[i], info.target,
                              ib + 2 * (n + 1) + (n - 1) + (n - i)) \o
           StateInfoDeallocate(Len(d.rt[i].quanta), ib + 2 * (n + 1) + (n - 1) + (n - i)))

\* deallocate() that frees left_dims_fci before right_dims_fci
MPSInfoFreeLeftFirst(info) ==
    LET n == info.n_sites
        free(d) == StateInfoDeallocate(Len(d.table.quanta), d.blk)
    IN (IF info.left_dims # <<>>
        THEN SeqFor(0, n, LAMBDA i : free(info.right_dims[i + 1])) \o
             SeqDown(n, 0, LAMBDA i : free(info.left_dims[i + 1]))
        ELSE <<>>) \o
       SeqDown(n, 0, LAMBDA i : free(info.left_dims_fci[i + 1])) \o
       SeqFor(0, n, LAMBDA i : free(info.right_dims_fci[i + 1]))

\* void deallocate(): the calls on ialloc
MPSInfoFree(info) ==
    LET n == info.n_sites
        free(d) == StateInfoDeallocate(Len(d.table.quanta), d.blk)
    IN (IF info.left_dims # <<>>
        THEN SeqFor(0, n, LAMBDA i : free(info.right_dims[i + 1])) \o
             SeqDown(n, 0, LAMBDA i : free(info.left_dims[i + 1]))
        ELSE <<>>) \o
       SeqFor(0, n, LAMBDA i : free(info.right_dims_fci[i + 1])) \o
       SeqDown(n, 0, LAMBDA i : free(info.left_dims_fci[i + 1]))

(***************************************************************************)
(* QCMPO (quantum.hpp 2397-2776) with Symbolic (1137-1183) and             *)
(* Hamiltonian::filter_site_ops / get_site_ops (2144-2338).                *)
(***************************************************************************)
\* the operator elements the constructor makes; sites count from 0
HOp(h) == OpElement("H", <<>>, h.vaccum, FInt(1))
IOp(h) == OpElement("I", <<>>, h.vaccum, FInt(1))
COp(h, m) == OpElement("C", <<m>>, Label3(1, 1, h.orb_sym[m + 1]), FInt(1))
DOp(h, m) == OpElement("D", <<m>>, Label3(-1, 1, h.orb_sym[m + 1]), FInt(1))
MCOp(h, m) == OpElement("C", <<m>>, Label3(1, 1, h.orb_sym[m + 1]), FInt(-1))
MDOp(h, m) == OpElement("D", <<m>>, Label3(-1, 1, h.orb_sym[m + 1]), FInt(-1))
TRDOp(h, m) == OpElement("RD", <<m>>, Label3(1, 1, h.orb_sym[m + 1]), FInt(2))
TROp(h, m) == OpElement("R", <<m>>, Label3(-1, 1, h.orb_sym[m + 1]), FInt(2))

\* a_op, ad_op, b_op, p_op, pd_op and q_op [i][j][s]
PairOp(h, name, n, i, j, s) ==
    OpElement(name, <<i, j, s>>,
              Label3(n, s * 2, BitXor(h.orb_sym[i + 1], h.orb_sym[j + 1])), FInt(1))

AOp(h, i, j, s) == PairOp(h, "A", 2, i, j, s)
ADOp(h, i, j, s) == PairOp(h, "AD", -2, i, j, s)
BOp(h, i, j, s) == PairOp(h, "B", 0, i, j, s)
POp(h, i, j, s) == PairOp(h, "P", -2, i, j, s)
PDOp(h, i, j, s) == PairOp(h, "PD", 2, i, j, s)
QOp(h, i, j, s) == PairOp(h, "Q", 0, i, j, s)

\* int lshape and int rshape of site m
LShape(n_sites, m) == 2 + 2 * n_sites + 6 * m * m
RShape(n_sites, m) == 2 + 2 * n_sites + 6 * (m + 1) * (m + 1)

\* vector<double> su2_factor{-0.5, -0.5 * sqrt(3)} and {1.0, sqrt(3)}
Su2Pair(s) == IF s = 0 THEN FNeg(FHalf) ELSE FMul(FNeg(FHalf), FSqrt(3))
Su2Q(s) == IF s = 0 THEN FInt(1) ELSE FSqrt(3)

\* mat[{i, j}] = x
Put(i, j, x) == << [i |-> i, j |-> j, x |-> x] >>

\* the assignments of the branch m == 0
FirstSiteRow(h, fd) ==
    LET n == h.n_sites
        m == 0
        p2 == 4 + n - (m + 1)
        p3 == p2 + n - (m + 1)
    IN Put(0, 0, HOp(h)) \o Put(0, 1, IOp(h)) \o Put(0, 2, COp(h, m)) \o
       Put(0, 3, DOp(h, m)) \o
       SeqFor(m + 1, n - 1, LAMBDA j : Put(0, 4 + j - m - 1, TRDOp(h, j))) \o
       SeqFor(m + 1, n - 1, LAMBDA j : Put(0, p2 + j - m - 1, TROp(h, j))) \o
       SeqFor(0, 1, LAMBDA s : Put(0, p3 + s, AOp(h, m, m, s))) \o
       SeqFor(0, 1, LAMBDA s : Put(0, p3 + 2 + s, ADOp(h, m, m, s))) \o
       SeqFor(0, 1, LAMBDA s : Put(0, p3 + 4 + s, BOp(h, m, m, s)))

\* the assignments of the branch m != 0: column 0
FirstColumn(h, fd, m) ==
    LET n == h.n_sites
        p == 2 + 2 * n
    IN Put(0, 0, IOp(h)) \o Put(1, 0, HOp(h)) \o
       SeqFor(0, m - 1, LAMBDA j : Put(2 + j, 0, TROp(h, j))) \o
       SeqFor(0, m - 1, LAMBDA j : Put(2 + m + j, 0, TRDOp(h, j))) \o
       Put(2 + 2 * m, 0, DOp(h, m)) \o
       Put(2 + 2 * m + n - m, 0, COp(h, m)) \o
       SeqFor(0, 1, LAMBDA s : SeqFor(0, m - 1, LAMBDA j : SeqFor(0, m - 1, LAMBDA k :
           Put(p + (s * m + j) * m + k, 0, ExprScale(POp(h, j, k, s), Su2Pair(s)))))) \o
       SeqFor(0, 1, LAMBDA s : SeqFor(0, m - 1, LAMBDA j : SeqFor(0, m - 1, LAMBDA k :
           Put(p + 2 * m * m + (s * m + j) * m + k, 0,
               ExprScale(PDOp(h, j, k, s), Su2Pair(s)))))) \o
       SeqFor(0, 1, LAMBDA s : SeqFor(0, m - 1, LAMBDA j : SeqFor(0, m - 1, LAMBDA k :
           Put(p + 4 * m * m + (s * m + j) * m + k, 0,
               ExprScale(QOp(h, j, k, s), Su2Q(s))))))

\* the columns RD of the branch m != 0 && m != n_sites - 1; p is the first
RDColumns(h, fd, m, p) ==
    LET n == h.n_sites
        pi == 1
        pc == 2
        pd == 2 + m
        prd == 2 + m + m - m
        pa0 == 2 + 2 * n
        pa1 == 2 + 2 * n + m * m
        pb0 == 2 + 2 * n + m * m * 4
        pb1 == 2 + 2 * n + m * m * 5
    IN SeqFor(m + 1, n - 1, LAMBDA i :
        LET col == p + i - (m + 1) IN
        Put(prd + i, col, IOp(h)) \o Put(pi, col, TRDOp(h, i)) \o
        SeqFor(0, m - 1, LAMBDA k :
            Put(pd + k, col,
                ExprScale(ExprAdd(ExprScale(PDOp(h, i, k, 0), FNeg(FHalf)),
                                  ExprScale(PDOp(h, i, k, 1),
                                            FMul(FNeg(FHalf), FSqrt(3)))), FInt(2))) \o
            Put(pc + k, col,
                ExprScale(ExprAdd(ExprScale(QOp(h, k, i, 0), FHalf),
                                  ExprScale(QOp(h, k, i, 1),
                                            FMul(FNeg(FHalf), FSqrt(3)))), FInt(2)))) \o
        SeqFor(0, m - 1, LAMBDA j : SeqFor(0, m - 1, LAMBDA l :
            LET f0 == FAdd(IntV(fd, i, j, m, l), IntV(fd, i, l, m, j))
                f1 == FSub(IntV(fd, i, j, m, l), IntV(fd, i, l, m, j))
            IN Put(pa0 + j * m + l, col, ExprScale(DOp(h, m), FMul(f0, FNeg(FHalf)))) \o
               Put(pa1 + j * m + l, col,
                   ExprScale(DOp(h, m), FMul(f1, FMul(FHalf, FSqrt(3))))))) \o
        SeqFor(0, m - 1, LAMBDA k : SeqFor(0, m - 1, LAMBDA l :
            LET f == FSub(FMul(FInt(2), IntV(fd, i, m, k, l)), IntV(fd, i, l, k, m))
            IN Put(pb0 + l * m + k, col, ExprScale(COp(h, m), f)))) \o
        SeqFor(0, m - 1, LAMBDA j : SeqFor(0, m - 1, LAMBDA k :
            LET f == FMul(IntV(fd, i, j, k, m), FSqrt(3))
            IN Put(pb1 + j * m + k, col, ExprScale(COp(h, m), f)))))

\* the columns R of the branch m != 0 && m != n_sites - 1; p is the first
RColumns(h, fd, m, p) ==
    LET n == h.n_sites
        pi == 1
        pc == 2
        pd == 2 + m
        pr == 2 + m + n - m
        pad0 == 2 + 2 * n + m * m * 2
        pad1 == 2 + 2 * n + m * m * 3
        pb0 == 2 + 2 * n + m * m * 4
        pb1 == 2 + 2 * n + m * m * 5
    IN SeqFor(m + 1, n - 1, LAMBDA i :
        LET col == p + i - (m + 1) IN
        Put(pr + i, col, IOp(h)) \o Put(pi, col, TROp(h, i)) \o
        SeqFor(0, m - 1, LAMBDA k :
            Put(pc + k, col,
                ExprScale(ExprAdd(ExprScale(POp(h, i, k, 0), FNeg(FHalf)),
                                  ExprScale(POp(h, i, k, 1),
                                            FMul(FHalf, FSqrt(3)))), FInt(2))) \o
            Put(pd + k, col,
                ExprScale(ExprAdd(ExprScale(QOp(h, i, k, 0), FHalf),
                                  ExprScale(QOp(h, i, k, 1),
                                            FMul(FHalf, FSqrt(3)))), FInt(2)))) \o
        SeqFor(0, m - 1, LAMBDA j : SeqFor(0, m - 1, LAMBDA l :
            LET f0 == FAdd(IntV(fd, i, j, m, l), IntV(fd, i, l, m, j))
                f1 == FSub(IntV(fd, i, j, m, l), IntV(fd, i, l, m, j))
            IN Put(pad0 + j * m + l, col, ExprScale(COp(h, m), FMul(f0, FNeg(FHalf)))) \o
               Put(pad1 + j * m + l, col,
                   ExprScale(COp(h, m), FMul(f1, FMul(FNeg(FHalf), FSqrt(3))))))) \o
        SeqFor(0, m - 1, LAMBDA k : SeqFor(0, m - 1, LAMBDA l :
            LET f == FSub(FMul(FInt(2), IntV(fd, i, m, k, l)), IntV(fd, i, l, k, m))
            IN Put(pb0 + k * m + l, col, ExprScale(DOp(h, m), f)))) \o
        SeqFor(0, m - 1, LAMBDA j : SeqFor(0, m - 1, LAMBDA k :
            LET f == FMul(FMul(FInt(-1), IntV(fd, i, j, k, m)), FSqrt(3))
            IN Put(pb1 + k * m + j, col, ExprScale(DOp(h, m), f)))))

\* the columns A, AD or B of spin s: pa is the first row of the pairs, p
\* the first column; u is put beside the row of site i, w under it
PairColumns(h, m, s, pa, p, ru, u, rw, w, x) ==
    SeqFor(0, m - 1, LAMBDA i : SeqFor(0, m - 1, LAMBDA j :
        Put(pa + i * m + j, p + i * (m + 1) + j, IOp(h)))) \o
    SeqFor(0, m - 1, LAMBDA i :
        Put(ru + i, p + i * (m + 1) + m, u) \o
        Put(rw + i, p + m * (m + 1) + i, w)) \o
    Put(1, p + m * (m + 1) + m, x)

\* the assignments of the branch m != 0 && m != n_sites - 1
Interior(h, fd, m) ==
    LET n == h.n_sites
        pc == 2
        pd == 2 + m
        p1 == 2 + (m + 1)
        p2 == p1 + (m + 1)
        p3 == p2 + n - (m + 1)
        p4 == p3 + n - (m + 1)
        sq == (m + 1) * (m + 1)
        pa(k) == 2 + 2 * n + m * m * k
    IN Put(1, 1, IOp(h)) \o
       SeqFor(0, m - 1, LAMBDA j : Put(pc + j, 2 + j, IOp(h))) \o
       Put(1, 2 + m, COp(h, m)) \o
       SeqFor(0, m - 1, LAMBDA j : Put(pd + j, p1 + j, IOp(h))) \o
       Put(1, p1 + m, DOp(h, m)) \o
       RDColumns(h, fd, m, p2) \o
       RColumns(h, fd, m, p3) \o
       SeqFor(0, 1, LAMBDA s :
           PairColumns(h, m, s, pa(s), p4 + s * sq, pc, COp(h, m), pc,
                       IF s = 1 THEN MCOp(h, m) ELSE COp(h, m), AOp(h, m, m, s))) \o
       SeqFor(0, 1, LAMBDA s :
           PairColumns(h, m, s, pa(2 + s), p4 + (2 + s) * sq, pd,
                       IF s = 1 THEN MDOp(h, m) ELSE DOp(h, m), pd, DOp(h, m),
                       ADOp(h, m, m, s))) \o
       SeqFor(0, 1, LAMBDA s :
           PairColumns(h, m, s, pa(4 + s), p4 + (4 + s) * sq, pc, DOp(h, m), pd,
                       IF s = 1 THEN MCOp(h, m) ELSE COp(h, m), BOp(h, m, m, s)))

\* a SymbolicRowVector or SymbolicColumnVector of size n after assignments
\* puts: data[k] is the last value put at k, or the Zero of the constructor
VectorData(n, puts, byRow) ==
    <<>> \o [k \in 1..n |->
        LET at == {a \in 1..Len(puts) :
                      (IF byRow THEN puts[a].i ELSE puts[a].j) = k - 1}
        IN IF at = {} THEN Zero
           ELSE puts[CHOOSE a \in at : \A b \in at : b <= a].x]

\* a SymbolicMatrix of an interior site after the assignments puts
InteriorMatrix(n, m, puts) ==
    [type |-> "Mat", m |-> LShape(n, m), n |-> RShape(n, m),
     indices |-> <<>> \o [k \in 1..Len(puts) |-> <<puts[k].i, puts[k].j>>],
     data |-> <<>> \o [k \in 1..Len(puts) |-> puts[k].x]]

\* pmat of site m before filter_site_ops
SiteMatrix(h, fd, m) ==
    IF m = 0
    THEN [type |-> "RVec", m |-> 1, n |-> RShape(h.n_sites, m), indices |-> <<>>,
          data |-> VectorData(RShape(h.n_sites, m), FirstSiteRow(h, fd), FALSE)]
    ELSE IF m = h.n_sites - 1
    THEN [type |-> "CVec", m |-> LShape(h.n_sites, m), n |-> 1, indices |-> <<>>,
          data |-> VectorData(LShape(h.n_sites, m), FirstColumn(h, fd, m), TRUE)]
    ELSE InteriorMatrix(h.n_sites, m, FirstColumn(h, fd, m) \o Interior(h, fd, m))

\* a SymbolicRowVector / SymbolicColumnVector of operator names
NameVector(type, n, puts) ==
    [type |-> type, m |-> IF type = "RVec" THEN 1 ELSE n,
     n |-> IF type = "RVec" THEN n ELSE 1, indices |-> <<>>,
     data |-> VectorData(n, puts, type = "CVec")]

\* plop of site m: the names of the operators of the block of sites 0..m
LeftOperatorNames(h, m) ==
    LET n == h.n_sites
        p2 == 2 + (m + 1)
        p3 == p2 + (m + 1)
        p4 == p3 + n - (m + 1)
        p5 == p4 + n - (m + 1)
        sq == (m + 1) * (m + 1)
    IN IF m = n - 1 THEN NameVector("RVec", 1, Put(0, 0, HOp(h)))
       ELSE NameVector("RVec", RShape(n, m),
            Put(0, 0, HOp(h)) \o Put(0, 1, IOp(h)) \o
            SeqFor(0, m, LAMBDA j : Put(0, 2 + j, COp(h, j))) \o
            SeqFor(0, m, LAMBDA j : Put(0, p2 + j, DOp(h, j))) \o
            SeqFor(m + 1, n - 1, LAMBDA j : Put(0, p3 + j - (m + 1), TRDOp(h, j))) \o
            SeqFor(m + 1, n - 1, LAMBDA j : Put(0, p4 + j - (m + 1), TROp(h, j))) \o
            SeqFor(0, 1, LAMBDA s : SeqFor(0, m, LAMBDA j : SeqFor(0, m, LAMBDA k :
                Put(0, p5 + (s * (m + 1) + j) * (m + 1) + k, AOp(h, j, k, s))))) \o
            SeqFor(0, 1, LAMBDA s : SeqFor(0, m, LAMBDA j : SeqFor(0, m, LAMBDA k :
                Put(0, p5 + 2 * sq + (s * (m + 1) + j) * (m + 1) + k,
                    ADOp(h, j, k, s))))) \o
            SeqFor(0, 1, LAMBDA s : SeqFor(0, m, LAMBDA j : SeqFor(0, m, LAMBDA k :
                Put(0, p5 + 4 * sq + (s * (m + 1) + j) * (m + 1) + k,
                    BOp(h, j, k, s))))))

\* prop as the site 0 has it, on every site
RightOperatorNamesFirstSite(h, m) == NameVector("CVec", 1, Put(0, 0, IOp(h)))

\* prop of site m: the names of the operators of the block of sites m..n-1
RightOperatorNames(h, m) ==
    LET n == h.n_sites
        p2 == 2 + m
        p3 == p2 + m
        p4 == p3 + n - m
        p5 == p4 + n - m
    IN IF m = 0 THEN NameVector("CVec", 1, Put(0, 0, IOp(h)))
       ELSE NameVector("CVec", LShape(n, m),
            Put(0, 0, IOp(h)) \o Put(1, 0, HOp(h)) \o
            SeqFor(0, m - 1, LAMBDA j : Put(2 + j, 0, TROp(h, j))) \o
            SeqFor(0, m - 1, LAMBDA j : Put(p2 + j, 0, TRDOp(h, j))) \o
            SeqFor(m, n - 1, LAMBDA j : Put(p3 + j - m, 0, DOp(h, j))) \o
            SeqFor(m, n - 1, LAMBDA j : Put(p4 + j - m, 0, COp(h, j))) \o
            SeqFor(0, 1, LAMBDA s : SeqFor(0, m - 1, LAMBDA j : SeqFor(0, m - 1, LAMBDA k :
                Put(p5 + (s * m + j) * m + k, 0,
                    ExprScale(POp(h, j, k, s), Su2Pair(s)))))) \o
            SeqFor(0, 1, LAMBDA s : SeqFor(0, m - 1, LAMBDA j : SeqFor(0, m - 1, LAMBDA k :
                Put(p5 + 2 * m * m + (s * m + j) * m + k, 0,
                    ExprScale(PDOp(h, j, k, s), Su2Pair(s)))))) \o
            SeqFor(0, 1, LAMBDA s : SeqFor(0, m - 1, LAMBDA j : SeqFor(0, m - 1, LAMBDA k :
                Put(p5 + 4 * m * m + (s * m + j) * m + k, 0,
                    ExprScale(QOp(h, j, k, s), Su2Q(s)))))))

\* the keys filter_site_ops inserts for one entry of pmat->data
KeysOf(x) ==
    IF x.type = "Elem" THEN <<ElemAbs(x)>>
    ELSE IF x.type = "Sum"
    THEN [r \in 1..Len(x.strings) |-> ElemAbs(x.strings[r].ops[1])]
    ELSE <<>>

\* the keys of the map ops after the first loop of filter_site_ops
FilterKeys(data) == MapInsertAll(<<>>, Flatten(<<>> \o [k \in 1..Len(data) |-> KeysOf(data[k])]))

\* the allocate calls among calls: each takes one index of the pointer table
SlotsIn(calls) ==
    Cardinality({k \in 1..Len(calls) : calls[k].op \in {"allocate", "null"}})

\* p.second->allocate(find_site_op_info(op.q_label, orb_sym[m]), ptr) with
\* the data of a primitive: no call on the arena; fault for a nullptr info
BorrowedAt(h, sym, j, prim, factor) ==
    IF j = 0 THEN [mat |-> ZeroMatrix, calls |-> <<>>, fault |-> TRUE]
    ELSE [mat |-> SparseMatrix(InfoN(h.site_op_infos, sym, j),
                               InfoMemory(h.site_op_infos, sym, j),
                               IF InfoMemory(h.site_op_infos, sym, j) = 0 THEN 0
                               ELSE h.op_prims[prim].mat.blk,
                               FALSE, FMul(FInt(1), factor)),
          calls |-> <<>>, fault |-> FALSE]

\* the same with the info find_site_op_info finds for op on site m
Borrowed(h, m, op, prim, factor) ==
    BorrowedAt(h, h.orb_sym[m + 1],
               FindSiteOpInfo(h.site_op_infos, op.q_label, h.orb_sym[m + 1]),
               prim, factor)

\* p.second->allocate(info) and, for R and RD, tmp->allocate(info), iadd,
\* tmp->deallocate(): iadd leaves the factor 1.0; slot is the length of
\* the pointer table of dalloc; mat and tmp are the two matrices
OwnedWith(h, mat, tmp, withTmp) ==
    [mat |-> mat,
     calls |-> IF withTmp
               THEN << MatrixAllocate(mat),
                       EvAssert(mat.total_memory =
                                h.op_prims[PrimIndex("D", 0)].mat.total_memory),
                       MatrixAllocate(tmp), MatrixDeallocate(tmp) >>
               ELSE << MatrixAllocate(mat) >>,
     fault |-> FALSE]

\* the same with the info at the index j of site_op_infos[sym]
OwnedAt(h, sym, j, slot, withTmp) ==
    IF j = 0 THEN [mat |-> ZeroMatrix, calls |-> <<>>, fault |-> TRUE]
    ELSE OwnedWith(h,
                   SparseMatrix(InfoN(h.site_op_infos, sym, j),
                                InfoMemory(h.site_op_infos, sym, j),
                                slot + 1, TRUE, FInt(1)),
                   SparseMatrix(InfoN(h.site_op_infos, sym, j),
                                InfoMemory(h.site_op_infos, sym, j),
                                slot + 2, TRUE, FInt(1)),
                   withTmp)

\* the same with the info find_site_op_info finds for op on site m
Owned(h, m, op, slot, withTmp) ==
    OwnedAt(h, h.orb_sym[m + 1],
            FindSiteOpInfo(h.site_op_infos, op.q_label, h.orb_sym[m + 1]),
            slot, withTmp)

\* the body of the loop of get_site_ops for one key
\* an operator that stays the zero matrix
NoSiteOp == [mat |-> ZeroMatrix, calls |-> <<>>, fault |-> FALSE]

\* case I, N, NN, C, D, A, AD, B: p.second = site_norm_ops[orb_sym[m]].at(key);
\* k is the index of the key there, 0 for a key that at() does not find
NormSiteOp(h, sym, k) ==
    IF k = 0 THEN [mat |-> ZeroMatrix, calls |-> <<>>, fault |-> TRUE]
    ELSE [mat |-> h.site_norm_ops[sym + 1][k].mat, calls |-> <<>>, fault |-> FALSE]

\* p.second->allocate(info, prim data) with the factor f unless f is tiny
BorrowedUnlessTiny(h, m, op, prim, f) ==
    IF Tiny(f) THEN NoSiteOp ELSE Borrowed(h, m, op, prim, f)

\* the body of the loop of get_site_ops for one key
GetSiteOp(h, fd, m, op, slot) ==
    LET sym == h.orb_sym[m + 1]
        i == op.site_index[1]
        j == op.site_index[2]
        s == op.site_index[3]
    IN IF op.name \in {"I", "N", "NN", "C", "D", "A", "AD", "B"}
       THEN NormSiteOp(h, sym, FindOp(h.site_norm_ops[sym + 1], op))
       ELSE IF op.name = "H" THEN Owned(h, m, op, slot, FALSE)
       ELSE IF op.name \in {"R", "RD"}
       THEN IF h.orb_sym[i + 1] # sym
               \/ (Tiny(IntT(fd, i, m)) /\ Tiny(IntV(fd, i, m, m, m)))
            THEN NoSiteOp ELSE Owned(h, m, op, slot, TRUE)
       ELSE IF op.name \in {"P", "PD"}
       THEN BorrowedUnlessTiny(h, m, op,
                               PrimIndex(IF op.name = "P" THEN "AD" ELSE "A", s),
                               IntV(fd, i, m, j, m))
       ELSE IF s = 0
       THEN BorrowedUnlessTiny(h, m, op, PrimIndex("B", 0),
                FSub(FMul(FInt(2), IntV(fd, i, j, m, m)), IntV(fd, i, m, m, j)))
       ELSE BorrowedUnlessTiny(h, m, op, PrimIndex("B", 1), IntV(fd, i, m, m, j))

\* get_site_ops(m, ops) over the keys lo..hi: the values, the calls on
\* dalloc, and whether a null pointer was dereferenced; slot is the length
\* of the pointer table of dalloc before the key lo
GetSiteOpsOne(key, g) ==
    [ops |-> <<[op |-> key, mat |-> g.mat]>>, calls |-> g.calls, fault |-> g.fault]

\* the keys a went through, then the keys b went through
GetSiteOpsBoth(a, b) ==
    [ops |-> a.ops \o b.ops, calls |-> a.calls \o b.calls, fault |-> b.fault]

RECURSIVE GetSiteOps(_, _, _, _, _, _, _)
\* the keys after mid, unless the keys up to mid, which gave a, faulted
GetSiteOpsRest(h, fd, m, keys, slot, mid, hi, a) ==
    IF a.fault THEN a
    ELSE GetSiteOpsBoth(a, GetSiteOps(h, fd, m, keys, slot + SlotsIn(a.calls),
                                      mid + 1, hi))

GetSiteOps(h, fd, m, keys, slot, lo, hi) ==
    IF lo > hi THEN [ops |-> <<>>, calls |-> <<>>, fault |-> FALSE]
    ELSE IF lo = hi
    THEN GetSiteOpsOne(keys[lo], GetSiteOp(h, fd, m, keys[lo], slot))
    ELSE GetSiteOpsRest(h, fd, m, keys, slot, (lo + hi) \div 2, hi,
                        GetSiteOps(h, fd, m, keys, slot, lo, (lo + hi) \div 2))

\* mat->factor == 0.0 || mat->info->n == 0
NoMatrix(mat) == mat.factor.m = 0 \/ mat.n = 0

\* ops[xx]
OpsAt(ops, xx) ==
    ops[CHOOSE k \in 1..Len(ops) : ElemEq(ops[k].op, xx)].mat

\* the second loop with a sum made Zero as soon as one term is a zero operator
FilterEntryAny(ops, x) ==
    IF x.type = "Elem" THEN (IF NoMatrix(OpsAt(ops, ElemAbs(x))) THEN Zero ELSE x)
    ELSE IF x.type = "Sum"
    THEN (IF \E r \in 1..Len(x.strings) : NoMatrix(OpsAt(ops, ElemAbs(x.strings[r].ops[1])))
          THEN Zero ELSE x)
    ELSE x

\* the second loop of filter_site_ops on one entry of pmat->data
FilterEntry(ops, x) ==
    IF x.type = "Elem" THEN (IF NoMatrix(OpsAt(ops, ElemAbs(x))) THEN Zero ELSE x)
    ELSE IF x.type = "Sum"
    THEN (IF \A r \in 1..Len(x.strings) : NoMatrix(OpsAt(ops, ElemAbs(x.strings[r].ops[1])))
          THEN Zero ELSE x)
    ELSE x

\* filter_site_ops(m, pmat, ops): the tensor of site m and the calls on dalloc
FilterMatrix(pmat, data, kept) ==
    IF pmat.type = "Mat"
    THEN [pmat EXCEPT !.data = [k \in 1..Len(kept) |-> data[kept[k]]],
                      !.indices = [k \in 1..Len(kept) |-> pmat.indices[kept[k]]]]
    ELSE [pmat EXCEPT !.data = data]

\* the second and the third loop on the entries data after the second loop
FilterResult(pmat, g, data) ==
    [lmat |-> FilterMatrix(pmat, data,
                  SelectSeq([k \in 1..Len(data) |-> k],
                            LAMBDA k : data[k].type # "Zero")),
     lop |-> SelectSeq(g.ops, LAMBDA p : ~NoMatrix(p.mat)),
     calls |-> g.calls, fault |-> FALSE]

\* filter_site_ops after get_site_ops gave g
FilterWith(pmat, g) ==
    IF g.fault THEN [lmat |-> pmat, lop |-> g.ops, calls |-> g.calls, fault |-> TRUE]
    ELSE FilterResult(pmat, g,
             <<>> \o [k \in 1..Len(pmat.data) |-> FilterEntry(g.ops, pmat.data[k])])

\* get_site_ops(m, ops) for the keys of the map
GetSiteOpsOf(h, fd, m, keys, db) == GetSiteOps(h, fd, m, keys, db, 1, Len(keys))

\* filter_site_ops(m, pmat, ops): the tensor of site m and the calls on dalloc
FilterSiteOps(h, fd, m, pmat, db) ==
    FilterWith(pmat, GetSiteOpsOf(h, fd, m, FilterKeys(pmat.data), db))

\* the body of the loop over the sites for site m: r is the object after
\* the sites before m, f what filter_site_ops gave for m
QCMPOAppend(h, m, r, f) ==
    [n_sites |-> h.n_sites,
     tensors |-> Append(r.tensors, [lmat |-> f.lmat, lop |-> f.lop]),
     left_operator_names |-> Append(r.left_operator_names, LeftOperatorNames(h, m)),
     right_operator_names |-> Append(r.right_operator_names, RightOperatorNames(h, m)),
     calls |-> r.calls \o f.calls, fault |-> f.fault]

\* site m after r, unless a site before m faulted
QCMPOSite(h, fd, db, m, r) ==
    IF r.fault THEN r
    ELSE QCMPOAppend(h, m, r,
             FilterSiteOps(h, fd, m, SiteMatrix(h, fd, m), db + SlotsIn(r.calls)))

\* QCMPO(hamil) after the sites 0..k-1; db is the length of the pointer
\* table of dalloc before the constructor
RECURSIVE QCMPO(_, _, _, _)
QCMPO(h, fd, db, k) ==
    IF k = 0
    THEN [n_sites |-> h.n_sites, tensors |-> <<>>, left_operator_names |-> <<>>,
          right_operator_names |-> <<>>, calls |-> <<>>, fault |-> FALSE]
    ELSE QCMPOSite(h, fd, db, k - 1, QCMPO(h, fd, db, k - 1))

\* deallocate() that walks the sites and the operators of a site forwards
QCMPOFreeForward(o) ==
    SeqFor(1, o.n_sites, LAMBDA m1 :
        SeqFor(1, Len(o.tensors[m1].lop), LAMBDA k :
            IF o.tensors[m1].lop[k].op.name \in {"R", "RD", "H"}
            THEN <<MatrixDeallocate(o.tensors[m1].lop[k].mat)>> ELSE <<>>))

\* void deallocate() override: the calls on dalloc
QCMPOFree(o) ==
    SeqDown(o.n_sites, 1, LAMBDA m1 :
        SeqDown(Len(o.tensors[m1].lop), 1, LAMBDA k :
            IF o.tensors[m1].lop[k].op.name \in {"R", "RD", "H"}
            THEN <<MatrixDeallocate(o.tensors[m1].lop[k].mat)>> ELSE <<>>))

(***************************************************************************)
(* SpecLife: one FCIDUMP file is read, the Hamiltonian, the MPSInfo (with  *)
(* set_bond_dimension) and the QCMPO are built, and deallocate is called   *)
(* on mpo, mps_info, hamil and fcidump, in this order.                     *)
(***************************************************************************)
MaxSites == 3       \* norb of the file: 1..MaxSites orbitals
MaxSym == 1         \* irreps 0..MaxSym of the orbitals after swap_d2h
MaxBond == 2        \* bond dimensions 1..MaxBond

ISize == 1073741824     \* size_t isize = 1L << 30
DSize == 1073741824     \* size_t dsize = 1L << 36, cut to what an integer holds

\* static uint8_t swap_d2h(uint8_t isym)
SwapD2h(isym) == <<8, 0, 7, 6, 1, 5, 2, 3, 4>>[isym + 1]

\* the irreps a file names, in the numbering of the file
FileSyms == {x \in 1..8 : SwapD2h(x) <= MaxSym}

\* orbsym=a,b,a,...
OrbSym(norb, a, b) == [k \in 1..norb |-> IF k % 2 = 1 THEN a ELSE b]

\* one integral line: the value 1.0 and four indices that count from 1
Line(i, j, k, l) == << [val |-> FInt(1), idx |-> <<i, j, k, l>>] >>

\* the integral lines of a file: "t" gives every one-electron integral that
\* the symmetry allows, "u" every (ii|ii), "v" every other two-electron
\* integral that the symmetry allows, "x" one integral that it forbids
Lines(norb, orbsym, kinds) ==
    LET pg(i) == SwapD2h(orbsym[i]) IN
    SeqFor(1, norb, LAMBDA i : SeqFor(1, i, LAMBDA j : SeqFor(1, i, LAMBDA k :
        SeqFor(1, k, LAMBDA l :
            IF BitXor(BitXor(pg(i), pg(j)), BitXor(pg(k), pg(l))) = 0
               /\ ((i = j /\ j = k /\ k = l /\ "u" \in kinds)
                   \/ (~(i = j /\ j = k /\ k = l) /\ "v" \in kinds))
            THEN Line(i, j, k, l) ELSE <<>>)))) \o
    SeqFor(1, norb, LAMBDA i : SeqFor(1, i, LAMBDA j :
        IF pg(i) = pg(j) /\ "t" \in kinds THEN Line(i, j, 0, 0) ELSE <<>>)) \o
    (IF "x" \in kinds /\ norb >= 3 /\ pg(1) # pg(2) THEN Line(3, 1, 3, 2) ELSE <<>>) \o
    Line(0, 0, 0, 0)

LifeKinds == { {}, {"t"}, {"u"}, {"t", "u"}, {"v"}, {"t", "u", "v"}, {"t", "x"} }

\* a file with nelec electrons in norb orbitals, of the lowest spin
File(norb, nelec, isym, a, b, kinds) ==
    [norb |-> norb, nelec |-> nelec, ms2 |-> nelec % 2, isym |-> isym,
     orbsym |-> OrbSym(norb, a, b), lines |-> Lines(norb, OrbSym(norb, a, b), kinds)]

\* the files: half filled, or with more electrons than the orbitals hold
LifeFiles ==
    { File(norb, IF over THEN 2 * norb + 1 ELSE norb, 1, a, b, kinds) :
      norb \in 1..MaxSites, over \in BOOLEAN, a \in FileSyms, b \in FileSyms,
      kinds \in LifeKinds }

notLife == <<alloc, live, last, run, lab, cgs, sti, smi, expr>>

LifeInit ==
    /\ AllocIdle
    /\ lab = Idle /\ cgs = Idle /\ sti = Idle /\ smi = Idle /\ expr = Idle
    /\ mpo = Idle
    /\ \E file \in LifeFiles :
           life = [pc |-> "start", out |-> "ok", file |-> file, fcidump |-> Idle,
                   hamil |-> Idle, mps_info |-> Idle,
                   ialloc |-> Arena(ISize), dalloc |-> Arena(DSize)]

\* what a step leaves behind: the arenas after its calls, and how it ended
Ran(ia, da, fault, pc) ==
    [life EXCEPT !.ialloc = ia, !.dalloc = da,
                 !.out = IF fault THEN "fault"
                         ELSE IF ia.out # "ok" THEN ia.out ELSE da.out,
                 !.pc = pc]

\* fcidump->read(filename)
FCIDUMPRead ==
    /\ life.pc = "start" /\ life.out = "ok"
    /\ \E fd \in {FcidumpRead(life.file, Len(life.dalloc.ptr) + 1)} :
           life' = [Ran(life.ialloc,
                        ArenaRun(life.dalloc, <<EvAllocate(fd.total_memory)>>),
                        FALSE, "read") EXCEPT !.fcidump = fd]
    /\ UNCHANGED mpo
    /\ UNCHANGED notLife

\* the orbsym of the file after transform(..., Hamiltonian::swap_d2h)
FileOrbSym(p) == [k \in 1..Len(p.orbsym) |-> SwapD2h(p.orbsym[k])]

\* SpinLabel target(fcidump->n_elec(), fcidump->twos(), swap_d2h(fcidump->isym()))
FileTarget(p) == Label3(p.nelec, p.ms2, SwapD2h(p.isym))

\* Hamiltonian hamil(vaccum, target, norb, su2, fcidump, orbsym): writing
\* basis[i] for n_sites <= i < n_syms is out of the bounds of new
\* StateInfo[n_sites]; the process faults or goes on
HamiltonianConstruct ==
    /\ life.pc = "read" /\ life.out = "ok"
    /\ \E h \in {Hamiltonian(Vacuum, FileTarget(life.fcidump.params),
                              life.fcidump.params.norb,
                              FileOrbSym(life.fcidump.params),
                              Len(life.ialloc.ptr), Len(life.dalloc.ptr))} :
       \E crash \in BOOLEAN :
           /\ crash => h.n_syms > h.n_sites
           /\ life' = [Ran(ArenaRun(life.ialloc, HamiltonianIntCalls(h)),
                           ArenaRun(life.dalloc, HamiltonianDoubleCalls(h)),
                           crash, "hamil") EXCEPT !.hamil = h]
    /\ UNCHANGED mpo
    /\ UNCHANGED notLife

\* make_shared<MPSInfo>(norb, vaccum, target, hamil.basis, hamil.orb_sym)
MPSInfoConstruct ==
    /\ life.pc = "hamil" /\ life.out = "ok"
    /\ \E info \in {MPSInfo(life.hamil, life.hamil.target, Len(life.ialloc.ptr))} :
           life' = [Ran(ArenaRun(life.ialloc,
                                 MPSInfoCalls(life.hamil, info, Len(life.ialloc.ptr))),
                        life.dalloc, FALSE, "mps_info") EXCEPT !.mps_info = info]
    /\ UNCHANGED mpo
    /\ UNCHANGED notLife

\* mps_info->set_bond_dimension(m)
SetBondDimensionCall ==
    /\ life.pc = "mps_info" /\ life.out = "ok"
    /\ \E m \in 1..MaxBond :
       \E d \in {BondDims(life.hamil, life.mps_info, m)} :
           life' = [Ran(ArenaRun(life.ialloc,
                                 SetBondDimensionCalls(life.hamil, life.mps_info, d,
                                                       Len(life.ialloc.ptr))),
                        life.dalloc, FALSE, "bond")
                    EXCEPT !.mps_info = SetBondDimension(life.mps_info, d, m,
                                                         Len(life.ialloc.ptr))]
    /\ UNCHANGED mpo
    /\ UNCHANGED notLife

\* make_shared<QCMPO>(hamil)
QCMPOConstruct ==
    /\ life.pc = "bond" /\ life.out = "ok"
    /\ \E o \in {QCMPO(life.hamil, life.fcidump, Len(life.dalloc.ptr),
                        life.hamil.n_sites)} :
           /\ mpo' = [pc |-> "built", n_sites |-> o.n_sites, tensors |-> o.tensors,
                      left_operator_names |-> o.left_operator_names,
                      right_operator_names |-> o.right_operator_names,
                      db |-> Len(life.dalloc.ptr), calls |-> o.calls, freed |-> <<>>]
           /\ life' = Ran(life.ialloc, ArenaRun(life.dalloc, o.calls), o.fault, "mpo")
    /\ UNCHANGED notLife

\* mpo->deallocate()
QCMPODeallocate ==
    /\ life.pc = "mpo" /\ life.out = "ok"
    /\ life' = Ran(life.ialloc, ArenaRun(life.dalloc, QCMPOFree(mpo)), FALSE, "mpo_free")
    /\ mpo' = [mpo EXCEPT !.freed = QCMPOFree(mpo)]
    /\ UNCHANGED notLife

\* mps_info->deallocate()
MPSInfoDeallocate ==
    /\ life.pc = "mpo_free" /\ life.out = "ok"
    /\ life' = Ran(ArenaRun(life.ialloc, MPSInfoFree(life.mps_info)), life.dalloc,
                   FALSE, "mps_info_free")
    /\ UNCHANGED mpo
    /\ UNCHANGED notLife

\* hamil.deallocate()
HamiltonianDeallocate ==
    /\ life.pc = "mps_info_free" /\ life.out = "ok"
    /\ life' = Ran(ArenaRun(life.ialloc, HamiltonianFreeInt(life.hamil)),
                   ArenaRun(life.dalloc, HamiltonianFreeDouble(life.hamil)),
                   FALSE, "hamil_free")
    /\ UNCHANGED mpo
    /\ UNCHANGED notLife

\* fcidump->deallocate()
FCIDUMPDeallocate ==
    /\ life.pc = "hamil_free" /\ life.out = "ok"
    /\ life' = Ran(life.ialloc,
                   ArenaRun(life.dalloc,
                            << EvAssert(life.fcidump.total_memory # 0),
                               EvDeallocate(life.fcidump.blk, life.fcidump.total_memory) >>),
                   FALSE, "done")
    /\ UNCHANGED mpo
    /\ UNCHANGED notLife

LifeNext ==
    \/ FCIDUMPRead
    \/ HamiltonianConstruct
    \/ MPSInfoConstruct
    \/ SetBondDimensionCall
    \/ QCMPOConstruct
    \/ QCMPODeallocate
    \/ MPSInfoDeallocate
    \/ HamiltonianDeallocate
    \/ FCIDUMPDeallocate

SpecLife == LifeInit /\ [][LifeNext]_vars

(***************************************************************************)
(* Claims on the lifecycle.                                                *)
(***************************************************************************)
\* both arenas are empty again
ArenasEmpty ==
    /\ life.ialloc.a.used = 0 /\ life.ialloc.a.shift = 0
    /\ life.dalloc.a.used = 0 /\ life.dalloc.a.shift = 0

\* C1: in the lifecycle FCIDUMP, Hamiltonian, MPSInfo with
\* set_bond_dimension, QCMPO, followed by deallocate on mpo, mps_info, hamil
\* and fcidump, no deallocate call takes the fatal "not in reverse order"
\* path, and once the last deallocate has returned both arenas have
\* used = 0 and shift = 0.
C1_LifecycleClean ==
    /\ life.out # "fatal_order"
    /\ (life.pc = "done" /\ life.out = "ok") => ArenasEmpty

\* a lifecycle of three sites or more has ended, and its QCMPO had taken
\* blocks of dalloc beyond those of the Hamiltonian
C1_Witness ==
    /\ life.pc = "done" /\ life.out = "ok"
    /\ life.hamil.n_sites >= 3
    /\ mpo.pc = "built"
    /\ Len(life.dalloc.ptr) > 2 + Len(OpPrims)
    /\ \E k \in 1..Len(life.dalloc.ptr) : k > 2 + Len(OpPrims) /\ life.dalloc.ptr[k] = NullPtr
    /\ ArenasEmpty

\* C5 as the specification has it: for every m in 1..n_sites-1,
\* right_operator_names[m] and left_operator_names[m-1] have the same length
\* and, at every index, the same name, site indices and factor.
C5_Claimed ==
    mpo.pc = "built" =>
        \A m \in 1..(mpo.n_sites - 1) :
            LET r == mpo.right_operator_names[m + 1].data
                l == mpo.left_operator_names[m].data
            IN /\ Len(r) = Len(l)
               /\ \A k \in 1..Len(r) :
                      /\ r[k].name = l[k].name
                      /\ r[k].site_index = l[k].site_index
                      /\ r[k].factor = l[k].factor

\* the name the right block holds where the left block holds the name x
Complement(x) ==
    IF x = "H" THEN "I" ELSE IF x = "I" THEN "H"
    ELSE IF x = "C" THEN "R" ELSE IF x = "R" THEN "C"
    ELSE IF x = "D" THEN "RD" ELSE IF x = "RD" THEN "D"
    ELSE IF x = "A" THEN "P" ELSE IF x = "AD" THEN "PD"
    ELSE IF x = "B" THEN "Q" ELSE x

\* C5: for every m in 1..n_sites-1, right_operator_names[m] and
\* left_operator_names[m-1] have the same length 2 + 2 n_sites + 6 m^2 and, at
\* every index, the same site indices; the name on the right is the
\* complement of the name on the left (H/I, C/R, D/RD, A/P, AD/PD, B/Q).
C5_Complementary ==
    mpo.pc = "built" =>
        \A m \in 1..(mpo.n_sites - 1) :
            LET r == mpo.right_operator_names[m + 1].data
                l == mpo.left_operator_names[m].data
            IN /\ Len(r) = Len(l)
               /\ Len(r) = 2 + 2 * mpo.n_sites + 6 * m * m
               /\ \A k \in 1..Len(r) :
                      /\ r[k].site_index = l[k].site_index
                      /\ r[k].name = Complement(l[k].name)

\* a QCMPO of three sites or more is built: m = 2 has pairs on both sides
C5_Witness ==
    /\ mpo.pc = "built" /\ mpo.n_sites >= 3
    /\ Len(mpo.right_operator_names[3].data) = 2 + 2 * mpo.n_sites + 24
    /\ mpo.left_operator_names[2].data[3].name = "C"
    /\ mpo.right_operator_names[3].data[3].name = "R"

(***************************************************************************)
(* SpinLabel::find, get_ket, get_bra and combine (quantum.hpp 656-677).    *)
(* SpecCouple: a single-valued label a is coupled to a single-valued label *)
(* b and the sum is indexed, or a label is looked up in a range a.         *)
(***************************************************************************)
\* the low 16 bits of data: the bytes twos and pg
LowHalf(q) == q[3] * 256 + q[4]

\* the low 16 bits of x.data - data, which are those of the difference of
\* the low halves; find reads no bit above them
WordDiff(x, q) == (LowHalf(x) - LowHalf(q)) % 65536

\* int find(SpinLabel x) const noexcept
LabelFind(q, x) ==
    IF BitXor(q[1], x[1]) # 0 \/ BitXor(q[4], x[4]) # 0
       \/ (WordDiff(x, q) \div 256) % 2 # 0
       \/ LabelTwos(x) < LabelTwosLow(q) \/ LabelTwos(x) > LabelTwos(q)
    THEN -1
    ELSE (WordDiff(x, q) \div 512) % 128

\* SpinLabel(0xFFFFFFFFU)
InvalidLabel == <<ByteMax, ByteMax, ByteMax, ByteMax>>

\* combine without the test of CG::triangle
LabelCombineNoTriangle(dq, bra, ket) ==
    IF GetBra(SetTwosLow(ket, LabelTwos(bra)), dq) # bra THEN InvalidLabel
    ELSE SetTwosLow(ket, LabelTwos(bra))

\* SpinLabel combine(SpinLabel bra, SpinLabel ket) const, on dq
LabelCombine(dq, bra, ket) ==
    IF GetBra(SetTwosLow(ket, LabelTwos(bra)), dq) # bra
       \/ ~Triangle(LabelTwos(SetTwosLow(ket, LabelTwos(bra))), LabelTwos(dq),
                    LabelTwos(bra))
    THEN InvalidLabel
    ELSE SetTwosLow(ket, LabelTwos(bra))

MaxCoupleN == 1       \* particle numbers -MaxCoupleN..MaxCoupleN and the extremes
MaxCoupleTwos == 2    \* doubled spins 0..MaxCoupleTwos and the large ones
MaxCouplePg == 1      \* irreps 0..MaxCouplePg and the largest

CoupleNs == (-MaxCoupleN..MaxCoupleN) \cup {Int8Min, Int8Max}
CoupleSpins ==
    (0..MaxCoupleTwos) \cup {Int8Max \div 2, (Int8Max \div 2) + 1, Int8Max, ByteMax}
CouplePgs == (0..MaxCouplePg) \cup {ByteMax}

\* the single-valued labels
CoupleSingles == { Label3(n, t, pg) : n \in CoupleNs, t \in CoupleSpins, pg \in CouplePgs }

\* the pairs twos_low <= twos of equal parity that fit a byte
CoupleSpans ==
    { s \in { <<tl, tl + d>> : tl \in CoupleSpins, d \in {0, 2, 4, Int8Max - 1} } :
        s[2] <= ByteMax }

\* the labels with twos_low <= twos of equal parity
CoupleRanges ==
    { Label(n, s[1], s[2], pg) : n \in CoupleNs, s \in CoupleSpans, pg \in CouplePgs }

\* the indices tried in q[i]: the first ones and the last
CoupleIndices(q) == {i \in (0..MaxIndex) \cup {LabelCount(q) - 1} : i < LabelCount(q)}

IsSingle(q) == LabelTwosLow(q) = LabelTwos(q)

CoupleInit ==
    /\ AllocIdle
    /\ cgs = Idle /\ sti = Idle /\ smi = Idle
    /\ expr = Idle /\ mpo = Idle /\ life = Idle
    /\ \E a \in CoupleRanges :
            lab = [pc |-> "couple", op |-> "none", a |-> a, b |-> Vacuum,
                    x |-> Vacuum, i |-> 0, r |-> 0]

\* x = a + b for a single-valued a
CoupleAdd ==
    \E b \in CoupleSingles :
        /\ lab.pc = "couple" /\ lab.op = "none" /\ IsSingle(lab.a)
        /\ lab' = [lab EXCEPT !.op = "add", !.b = b, !.x = LabelAdd(lab.a, b),
                              !.r = LabelCount(LabelAdd(lab.a, b))]
        /\ UNCHANGED notLabel

\* x = (a + b)[i]
CoupleIndex ==
    \E i \in CoupleIndices(lab.x) :
        /\ lab.pc = "couple" /\ lab.op = "add"
        /\ lab' = [lab EXCEPT !.op = "index", !.i = i, !.x = LabelIndex(lab.x, i)]
        /\ UNCHANGED notLabel

\* r = a.find(a[i])
CoupleFindIndexed ==
    \E i \in CoupleIndices(lab.a) :
        /\ lab.pc = "couple" /\ lab.op = "none"
        /\ lab' = [lab EXCEPT !.op = "find_index", !.i = i,
                              !.x = LabelIndex(lab.a, i),
                              !.r = LabelFind(lab.a, LabelIndex(lab.a, i))]
        /\ UNCHANGED notLabel

\* r = a.find(x)
CoupleFind ==
    \E x \in CoupleSingles :
        /\ lab.pc = "couple" /\ lab.op = "none"
        /\ lab' = [lab EXCEPT !.op = "find", !.x = x, !.r = LabelFind(lab.a, x)]
        /\ UNCHANGED notLabel

CoupleNext == CoupleAdd \/ CoupleIndex \/ CoupleFindIndexed \/ CoupleFind

SpecCouple == CoupleInit /\ [][CoupleNext]_vars

\* x differs from a in n or pg, has the other spin parity, or a spin outside
\* the range of a
NotInRange(a, x) ==
    \/ LabelN(x) # LabelN(a) \/ LabelPg(x) # LabelPg(a)
    \/ (LabelTwos(x) - LabelTwosLow(a)) % 2 # 0
    \/ LabelTwos(x) < LabelTwosLow(a) \/ LabelTwos(x) > LabelTwos(a)

(* C13: for every label q with twos_low <= twos of equal parity and every  *)
(* i in [0, q.count()), q.find(q[i]) == i; and q.find(x) == -1 for every   *)
(* single-valued x that differs from q in n or pg, has the wrong spin      *)
(* parity, or has twos outside [q.twos_low(), q.twos()].                   *)
C13_Claimed ==
    lab.pc = "couple" =>
        /\ (lab.op = "find_index" => lab.r = lab.i)
        /\ ((lab.op = "find" /\ NotInRange(lab.a, lab.x)) => lab.r = -1)

\* find gives -1 for the labels outside the range, and the index counted
\* down from twos, modulo 128, for the labels q[i]
FindCountsFromTwos ==
    lab.pc = "couple" =>
        /\ (lab.op = "find_index" =>
                lab.r = (lab.i - (LabelCount(lab.a) - 1)) % 128)
        /\ ((lab.op = "find" /\ NotInRange(lab.a, lab.x)) => lab.r = -1)

\* find on a single-valued label gives the index 0 of its one value
FindOnSingle ==
    /\ lab.pc = "couple" /\ lab.op = "find_index"
    /\ IsSingle(lab.a) /\ lab.r = 0

\* a and b are single-valued with spins that add up to at most 127 and
\* particle numbers that add up inside the signed 8-bit range
SumInRange ==
    /\ lab.pc = "couple" /\ lab.op \in {"add", "index"}
    /\ IsSingle(lab.a) /\ IsSingle(lab.b)
    /\ LabelTwos(lab.a) + LabelTwos(lab.b) <= Int8Max
    /\ LabelN(lab.a) + LabelN(lab.b) \in Int8Min..Int8Max

(* C17: for single-valued a and b with sa + sb <= 127 and a.n + b.n in the *)
(* signed 8-bit range, c = a + b has c.n = a.n + b.n, c.pg = a.pg XOR      *)
(* b.pg, c.twos_low = |sa - sb|, c.twos = sa + sb, c.count() = min(sa, sb) *)
(* + 1, and c[k], for k in [0, c.count()), is the single-valued label with *)
(* the same n and pg and twos = |sa - sb| + 2k.                            *)
C17_Sum ==
    SumInRange =>
        /\ (lab.op = "add" =>
               /\ LabelN(lab.x) = LabelN(lab.a) + LabelN(lab.b)
               /\ LabelPg(lab.x) = BitXor(LabelPg(lab.a), LabelPg(lab.b))
               /\ LabelTwosLow(lab.x) = Abs(LabelTwos(lab.a) - LabelTwos(lab.b))
               /\ LabelTwos(lab.x) = LabelTwos(lab.a) + LabelTwos(lab.b)
               /\ lab.r = Min(LabelTwos(lab.a), LabelTwos(lab.b)) + 1)
        /\ (lab.op = "index" =>
               /\ lab.r = Min(LabelTwos(lab.a), LabelTwos(lab.b)) + 1
               /\ lab.x = Label3(LabelN(lab.a) + LabelN(lab.b),
                                 Abs(LabelTwos(lab.a) - LabelTwos(lab.b)) + 2 * lab.i,
                                 BitXor(LabelPg(lab.a), LabelPg(lab.b))))

\* the spins 64 and 63 coupled to 1..127 and the last value selected, with
\* a negative particle number and two different irreps
C17_Witness ==
    /\ SumInRange /\ lab.op = "index"
    /\ LabelTwos(lab.a) = (Int8Max \div 2) + 1 /\ LabelTwos(lab.b) = Int8Max \div 2
    /\ LabelN(lab.a) + LabelN(lab.b) < 0
    /\ LabelPg(lab.a) # LabelPg(lab.b) /\ LabelPg(lab.b) # 0
    /\ lab.i = Int8Max \div 2 /\ lab.i = lab.r - 1
    /\ LabelTwos(lab.x) = Int8Max

(***************************************************************************)
(* SpecCombine: dq.combine(bra, ket) for three single-valued labels.       *)
(***************************************************************************)
MaxCombinePg == 0     \* irreps 0..MaxCombinePg and the largest

CombineSpins == (0..MaxCoupleTwos) \cup {ByteMax}
CombinePgs == (0..MaxCombinePg) \cup {ByteMax}
CombineLabels ==
    { Label3(n, t, pg) : n \in CoupleNs, t \in CombineSpins, pg \in CombinePgs }

CombineInit ==
    /\ AllocIdle
    /\ cgs = Idle /\ sti = Idle /\ smi = Idle
    /\ expr = Idle /\ mpo = Idle /\ life = Idle
    /\ \E dq \in CombineLabels, ket \in CombineLabels :
            lab = [pc |-> "combine", op |-> "none", dq |-> dq, ket |-> ket,
                   bra |-> Vacuum, x |-> Vacuum]

\* x = dq.combine(bra, ket)
CombineCall ==
    \E bra \in CombineLabels :
        /\ lab.pc = "combine" /\ lab.op = "none"
        /\ lab' = [lab EXCEPT !.op = "combine", !.bra = bra,
                              !.x = LabelCombine(lab.dq, bra, lab.ket)]
        /\ UNCHANGED notLabel

CombineNext == CombineCall

SpecCombine == CombineInit /\ [][CombineNext]_vars

Combined == lab.pc = "combine" /\ lab.op = "combine"

\* bra.pg != ket.pg XOR dq.pg, or the spins violate CG::triangle
PgOrSpinViolated ==
    \/ LabelPg(lab.bra) # BitXor(LabelPg(lab.ket), LabelPg(lab.dq))
    \/ ~Triangle(LabelTwos(lab.ket), LabelTwos(lab.dq), LabelTwos(lab.bra))

\* l.get_bra(dq) == bra and l.get_ket() == ket for the label l returned
SplitsBack == GetBra(lab.x, lab.dq) = lab.bra /\ GetKet(lab.x) = lab.ket

\* the sentinel exactly when bra.n != ket.n + dq.n, or the irreps or the
\* spins are violated; otherwise a label that splits back into bra and ket
C18_Claimed ==
    Combined =>
        /\ lab.x = InvalidLabel <=>
               (LabelN(lab.bra) # LabelN(lab.ket) + LabelN(lab.dq) \/ PgOrSpinViolated)
        /\ ~(LabelN(lab.bra) # LabelN(lab.ket) + LabelN(lab.dq) \/ PgOrSpinViolated)
               => SplitsBack

(* C18: for single-valued dq, bra, ket, dq.combine(bra, ket) is the        *)
(* sentinel 0xFFFFFFFF when bra.n differs from ket.n + dq.n modulo 256, or *)
(* bra.pg != ket.pg XOR dq.pg, or the spins violate CG::triangle;          *)
(* otherwise it is a label l with l.get_bra(dq) == bra and l.get_ket() ==  *)
(* ket, which is the sentinel only for ket == 0xFFFFFFFF.                  *)
C18_Combine ==
    Combined =>
        IF (LabelN(lab.bra) - LabelN(lab.ket) - LabelN(lab.dq)) % 256 # 0
           \/ PgOrSpinViolated
        THEN lab.x = InvalidLabel
        ELSE SplitsBack /\ (lab.x = InvalidLabel => lab.ket = InvalidLabel)

\* spins 1 and 1 coupled to 2, particle numbers 1 + (-1) and a non-trivial
\* irrep: a label comes back
C18_Witness ==
    /\ Combined
    /\ LabelTwos(lab.ket) = 1 /\ LabelTwos(lab.dq) = 1 /\ LabelTwos(lab.bra) = 2
    /\ LabelN(lab.ket) = 1 /\ LabelN(lab.dq) = -1 /\ LabelPg(lab.bra) = ByteMax
    /\ lab.x # InvalidLabel /\ SplitsBack /\ LabelTwosLow(lab.x) = 2

\* particle numbers that wrap around: 127 + 127 is taken for -2
CombineWraps ==
    /\ Combined /\ lab.x # InvalidLabel
    /\ LabelN(lab.ket) + LabelN(lab.dq) > Int8Max

\* the label that comes back is the sentinel itself
CombineCollides ==
    /\ Combined /\ lab.x = InvalidLabel /\ ~PgOrSpinViolated
    /\ LabelN(lab.bra) = LabelN(lab.ket) + LabelN(lab.dq)

(***************************************************************************)
(* operator*(OpExpr, OpExpr) (quantum.hpp 986-1053).                       *)
(* SpecPair: a + b and a * b for two expressions of any kinds.  Where      *)
(* control runs off the end of the function the caller reads a shared_ptr  *)
(* that was never written: the program faults, or goes on with a pointer   *)
(* to some expression that is alive.                                       *)
(***************************************************************************)
\* a * r for the strings r of a sum
LeftTimesStrings(a, strings) ==
    [i \in 1..Len(strings) |-> OpString(<<a>> \o strings[i].ops, strings[i].factor)]

\* r * b for the strings r of a sum
StringsTimesRight(strings, b) ==
    [i \in 1..Len(strings) |-> OpString(Append(strings[i].ops, b), strings[i].factor)]

\* operator* that gives Zero where the code has no return
ExprMulOrZero(a, b) ==
    IF a.type = "Zero" THEN a
    ELSE IF b.type = "Zero" THEN b
    ELSE IF a.type = "Elem" /\ b.type = "Elem" THEN OpString(<<a, b>>, FInt(1))
    ELSE Zero

\* operator*(const shared_ptr<OpExpr> &a, const shared_ptr<OpExpr> &b)
ExprMul(a, b) ==
    IF a.type = "Zero" THEN a
    ELSE IF b.type = "Zero" THEN b
    ELSE IF a.type = "Elem" THEN
        IF b.type = "Sum" THEN OpSum(LeftTimesStrings(a, b.strings))
        ELSE IF b.type = "Elem" THEN OpString(<<a, b>>, FInt(1))
        ELSE IF b.type = "Prod" THEN OpString(<<a>> \o b.ops, b.factor)
        ELSE NoReturn
    ELSE IF a.type = "Prod" THEN
        IF b.type = "Elem" THEN OpString(Append(a.ops, b), a.factor)
        ELSE IF b.type = "Prod" THEN OpString(a.ops \o b.ops, FMul(a.factor, b.factor))
        ELSE NoReturn
    ELSE IF a.type = "Sum" THEN
        IF b.type = "Elem" THEN OpSum(StringsTimesRight(a.strings, b))
        ELSE NoReturn
    ELSE NoReturn

\* the unit elements the strings of SpecPair are made of
PairUnits ==
    { OpElement("C", <<0>>, ExprLabel("C"), FInt(1)),
      OpElement("D", <<MaxOpSite>>, ExprLabel("D"), FInt(1)) }

PairStrings ==
    { OpString(ops, f) :
      ops \in SeqsOf(PairUnits), f \in {FInt(1), FNorm((2 ^ MantissaBits) - 3, -2)} }

PairSums ==
    { OpSum(s) :
      s \in SeqsOf({ OpString(<<u>>, FInt(-1)) : u \in PairUnits }) }

PairInputs == {Zero} \cup ExprElems \cup PairStrings \cup PairSums

PairInit ==
    /\ AllocIdle
    /\ lab = Idle /\ cgs = Idle /\ sti = Idle /\ smi = Idle
    /\ mpo = Idle /\ life = Idle
    /\ \E a \in PairInputs, b \in PairInputs :
          expr = [pc |-> "pair", op |-> "none", a |-> a, b |-> b, y |-> Zero,
                  out |-> "ok"]

\* what the caller has after the call: the value returned, or for a call
\* without a return a fault or a pointer to an expression that is alive
PairReturn(op, y) ==
    IF y # NoReturn THEN expr' = [expr EXCEPT !.op = op, !.y = y]
    ELSE \/ expr' = [expr EXCEPT !.op = op, !.y = NoReturn, !.out = "fault"]
         \/ \E g \in {expr.a, expr.b} :
                expr' = [expr EXCEPT !.op = op, !.y = g, !.out = "garbage"]

\* y = a + b
PairAdd ==
    /\ expr.pc = "pair" /\ expr.op = "none"
    /\ PairReturn("add", ExprAdd(expr.a, expr.b))
    /\ UNCHANGED notExpr

\* y = a * b
PairMul ==
    /\ expr.pc = "pair" /\ expr.op = "none"
    /\ PairReturn("mul", ExprMul(expr.a, expr.b))
    /\ UNCHANGED notExpr

PairNext == PairAdd \/ PairMul

SpecPair == PairInit /\ [][PairNext]_vars

(* C14: operator+(OpExpr, OpExpr) and operator*(OpExpr, OpExpr) return a   *)
(* defined expression for every ordered pair of kinds from {Zero, Elem,    *)
(* Prod, Sum}; no combination of kinds falls through without a result.     *)
C14_Claimed ==
    (expr.pc = "pair" /\ expr.op # "none") =>
        expr.out = "ok" /\ expr.y.type \in {"Zero", "Elem", "Prod", "Sum"}

\* the pairs of kinds for which operator+ has a return
AddReturns(a, b) ==
    \/ "Zero" \in {a, b}
    \/ <<a, b>> \in {<<"Elem", "Elem">>, <<"Elem", "Sum">>, <<"Prod", "Sum">>,
                     <<"Prod", "Prod">>, <<"Sum", "Elem">>, <<"Sum", "Prod">>,
                     <<"Sum", "Sum">>}

\* the pairs of kinds for which operator* has a return
MulReturns(a, b) ==
    \/ "Zero" \in {a, b}
    \/ <<a, b>> \in {<<"Elem", "Sum">>, <<"Elem", "Elem">>, <<"Elem", "Prod">>,
                     <<"Prod", "Elem">>, <<"Prod", "Prod">>, <<"Sum", "Elem">>}

\* a value is returned exactly for the pairs of kinds that have a return
ReturnsWhereCoded ==
    (expr.pc = "pair" /\ expr.op # "none") =>
        (expr.out = "ok" <=>
            IF expr.op = "add" THEN AddReturns(expr.a.type, expr.b.type)
            ELSE MulReturns(expr.a.type, expr.b.type))

(***************************************************************************)
(* sum, dot_product (quantum.hpp 1055-1082) and Symbolic operator*         *)
(* (1185-1221).  A Symbolic is [type, m, n, indices, data]; indices is     *)
(* empty for the two vectors.                                              *)
(***************************************************************************)
\* the strings sum(xs) pushes for one entry of xs
SumTerms(x) ==
    IF x.type = "Prod" THEN <<x>>
    ELSE IF x.type = "Elem" THEN <<StringOf(x)>>
    ELSE IF x.type = "Sum" THEN x.strings
    ELSE <<>>

\* sum(const vector<shared_ptr<OpExpr>> &xs)
ExprSum(xs) == OpSum(Flatten(<<>> \o [k \in 1..Len(xs) |-> SumTerms(xs[k])]))

\* x * y as the caller has it: where operator* has no return, the pointer
\* read is to the left or to the right operand, as pick says
Product(x, y, pick) ==
    IF ExprMul(x, y) # NoReturn THEN ExprMul(x, y)
    ELSE IF pick = "left" THEN x ELSE y

\* SymbolicRowVector(n) and SymbolicColumnVector(n) with the entries data
RowVector(data) ==
    [type |-> "RVec", m |-> 1, n |-> Len(data), indices |-> <<>>, data |-> data]
ColumnVector(data) ==
    [type |-> "CVec", m |-> Len(data), n |-> 1, indices |-> <<>>, data |-> data]

\* SymbolicMatrix(m, n) after add(i, j, x) for the entries stored, in order
Matrix(m, n, stored) ==
    [type |-> "Mat", m |-> m, n |-> n,
     indices |-> [k \in 1..Len(stored) |-> <<stored[k].i, stored[k].j>>],
     data |-> [k \in 1..Len(stored) |-> stored[k].x]]

\* the products pushed in the loop over the stored entries of the matrix
\* mat: vec[i] * mat[k] for a row vector, mat[k] * vec[j] for a column vector
StoredProducts(vec, mat, byRow, pick) ==
    [k \in 1..Len(mat.data) |->
        [i |-> mat.indices[k][1], j |-> mat.indices[k][2],
         x |-> IF byRow
               THEN Product(vec.data[mat.indices[k][1] + 1], mat.data[k], pick)
               ELSE Product(mat.data[k], vec.data[mat.indices[k][2] + 1], pick)]]

\* the products of every stored entry, whatever its row and column
AllProducts(prods, byRow, at) == [k \in 1..Len(prods) |-> prods[k].x]

\* xs[at]: the products pushed for the column at (byRow) or the row at
ProductsAt(prods, byRow, at) ==
    [k \in 1..Len(SelectSeq(prods, LAMBDA p : (IF byRow THEN p.j ELSE p.i) = at)) |->
        SelectSeq(prods, LAMBDA p : (IF byRow THEN p.j ELSE p.i) = at)[k].x]

\* the branch RVec * Mat
RowTimesMatrix(a, b, pick) ==
    RowVector([j \in 1..b.n |->
                  ExprSum(ProductsAt(StoredProducts(a, b, TRUE, pick), TRUE, j - 1))])

\* the branch Mat * CVec
MatrixTimesColumn(a, b, pick) ==
    ColumnVector([i \in 1..a.m |->
                     ExprSum(ProductsAt(StoredProducts(b, a, FALSE, pick), FALSE, i - 1))])

\* dot_product(a->data, b->data)
DotProduct(a, b, pick) ==
    ExprSum([k \in 1..Len(a) |-> Product(a[k], b[k], pick)])

\* the branch RVec * CVec
RowTimesColumn(a, b, pick) == ColumnVector(<<DotProduct(a.data, b.data, pick)>>)

\* the pairs of kinds operator* has a branch for
LegalKinds(a, b) ==
    <<a.type, b.type>> \in {<<"RVec", "Mat">>, <<"Mat", "CVec">>, <<"RVec", "CVec">>}

\* some product the branch computes has no return in operator*(OpExpr, OpExpr)
ProductFallsThrough(a, b) ==
    IF a.type = "RVec" /\ b.type = "Mat"
    THEN \E k \in 1..Len(b.data) :
             ExprMul(a.data[b.indices[k][1] + 1], b.data[k]) = NoReturn
    ELSE IF a.type = "Mat" /\ b.type = "CVec"
    THEN \E k \in 1..Len(a.data) :
             ExprMul(a.data[k], b.data[a.indices[k][2] + 1]) = NoReturn
    ELSE \E k \in 1..Len(a.data) : ExprMul(a.data[k], b.data[k]) = NoReturn

\* operator*(const shared_ptr<Symbolic> a, const shared_ptr<Symbolic> b)
\* when a branch is taken
SymMul(a, b, pick) ==
    IF a.type = "RVec" /\ b.type = "Mat" THEN RowTimesMatrix(a, b, pick)
    ELSE IF a.type = "Mat" /\ b.type = "CVec" THEN MatrixTimesColumn(a, b, pick)
    ELSE RowTimesColumn(a, b, pick)

(***************************************************************************)
(* SpecSym: r = a * b for a row vector and a matrix, a matrix and a column *)
(* vector, a row and a column vector, and for operands of every pair of    *)
(* kinds and shapes.                                                       *)
(***************************************************************************)
MaxSymDim == 2      \* vectors of length MaxSymDim, matrices up to MaxSymDim squared

\* the entries: one expression of each kind
SymValues ==
    { Zero,
      OpElement("C", <<0>>, ExprLabel("C"), FInt(-1)),
      OpString(<<OpElement("D", <<0>>, ExprLabel("D"), FInt(1))>>, FInt(2)),
      OpSum(<<OpString(<<OpElement("C", <<0>>, ExprLabel("C"), FInt(1))>>, FInt(1)),
              OpString(<<OpElement("D", <<MaxOpSite>>, ExprLabel("D"), FInt(1))>>,
                       FInt(-1))>>) }

SymVectors == [1..MaxSymDim -> SymValues]

\* up to two stored entries, anywhere in the matrix
SymStored ==
    UNION { [1..k -> [i : 0..(MaxSymDim - 1), j : 0..(MaxSymDim - 1), x : SymValues]] :
            k \in {0, 1, 2} }

SymMatrices == { Matrix(MaxSymDim, MaxSymDim, s) : s \in SymStored }

\* an operand of any kind and shape, with the same element everywhere
PlainOperand(type, m, n) ==
    IF type = "RVec"
    THEN RowVector([k \in 1..n |-> OpElement("C", <<0>>, ExprLabel("C"), FInt(1))])
    ELSE IF type = "CVec"
    THEN ColumnVector([k \in 1..m |-> OpElement("C", <<0>>, ExprLabel("C"), FInt(1))])
    ELSE Matrix(m, n,
                << [i |-> 0, j |-> 0, x |-> OpElement("C", <<0>>, ExprLabel("C"), FInt(1))] >>)

PlainOperands ==
    { PlainOperand(type, m, n) :
      type \in {"RVec", "CVec", "Mat"}, m \in 1..MaxSymDim, n \in 1..MaxSymDim }

SymPairs ==
    ({RowVector(v) : v \in SymVectors} \X SymMatrices)
    \cup (SymMatrices \X {ColumnVector(v) : v \in SymVectors})
    \cup ({RowVector(v) : v \in SymVectors} \X {ColumnVector(v) : v \in SymVectors})
    \cup (PlainOperands \X PlainOperands)

SymInit ==
    /\ AllocIdle
    /\ lab = Idle /\ cgs = Idle /\ sti = Idle /\ smi = Idle
    /\ mpo = Idle /\ life = Idle
    /\ \E p \in SymPairs :
          expr = [pc |-> "sym", op |-> "none", a |-> p[1], b |-> p[2],
                  r |-> Idle, pick |-> "none", out |-> "ok"]

\* assert(a->n == b->m) fails
SymAssertFails ==
    /\ expr.pc = "sym" /\ expr.op = "none"
    /\ expr.a.n # expr.b.m
    /\ expr' = [expr EXCEPT !.op = "times", !.out = "assert"]
    /\ UNCHANGED notExpr

\* r = a * b in one of the three branches, every product having a return
SymTimes ==
    /\ expr.pc = "sym" /\ expr.op = "none"
    /\ expr.a.n = expr.b.m /\ LegalKinds(expr.a, expr.b)
    /\ ~ProductFallsThrough(expr.a, expr.b)
    /\ expr' = [expr EXCEPT !.op = "times", !.r = SymMul(expr.a, expr.b, "none")]
    /\ UNCHANGED notExpr

\* r = a * b in one of the three branches with a product that has no
\* return: a fault, or the loop goes on with the pointer it reads
SymTimesUndefined ==
    /\ expr.pc = "sym" /\ expr.op = "none"
    /\ expr.a.n = expr.b.m /\ LegalKinds(expr.a, expr.b)
    /\ ProductFallsThrough(expr.a, expr.b)
    /\ \/ expr' = [expr EXCEPT !.op = "times", !.out = "fault"]
       \/ \E pick \in {"left", "right"} :
              expr' = [expr EXCEPT !.op = "times", !.out = "garbage", !.pick = pick,
                                   !.r = SymMul(expr.a, expr.b, pick)]
    /\ UNCHANGED notExpr

\* a * b for a pair of kinds without a branch: control runs off the end of
\* operator*, a fault or a pointer to one of the operands
SymNoBranch ==
    /\ expr.pc = "sym" /\ expr.op = "none"
    /\ expr.a.n = expr.b.m /\ ~LegalKinds(expr.a, expr.b)
    /\ \/ expr' = [expr EXCEPT !.op = "times", !.out = "fault"]
       \/ \E g \in {expr.a, expr.b} :
              expr' = [expr EXCEPT !.op = "times", !.out = "garbage", !.r = g]
    /\ UNCHANGED notExpr

SymNext == SymAssertFails \/ SymTimes \/ SymTimesUndefined \/ SymNoBranch

SpecSym == SymInit /\ [][SymNext]_vars

\* the terms the stored entries 1..k of mat put in the cell at: entry by
\* entry in stored order, the strings of its product with the entry of vec
\* it meets, when it lies in the column (byRow) or the row at and neither
\* factor is Zero
RECURSIVE CellTerms(_, _, _, _, _, _)
CellTerms(vec, mat, byRow, at, pick, k) ==
    IF k = 0 THEN <<>>
    ELSE CellTerms(vec, mat, byRow, at, pick, k - 1)
         \o (IF byRow
             THEN IF /\ mat.indices[k][2] = at
                     /\ vec.data[mat.indices[k][1] + 1] # Zero
                     /\ mat.data[k] # Zero
                  THEN SumTerms(Product(vec.data[mat.indices[k][1] + 1], mat.data[k], pick))
                  ELSE <<>>
             ELSE IF /\ mat.indices[k][1] = at
                     /\ vec.data[mat.indices[k][2] + 1] # Zero
                     /\ mat.data[k] # Zero
                  THEN SumTerms(Product(mat.data[k], vec.data[mat.indices[k][2] + 1], pick))
                  ELSE <<>>)

\* the terms of the element-wise products a[1]*b[1] .. a[k]*b[k]
RECURSIVE DotTerms(_, _, _, _)
DotTerms(a, b, pick, k) ==
    IF k = 0 THEN <<>>
    ELSE DotTerms(a, b, pick, k - 1) \o SumTerms(Product(a[k], b[k], pick))

\* a * b has returned from one of its three branches
SymReturned ==
    /\ expr.pc = "sym" /\ expr.op = "times"
    /\ expr.a.n = expr.b.m /\ LegalKinds(expr.a, expr.b)
    /\ expr.out # "fault"

(* C15: whenever a * b returns for a row vector a and a matrix b, the result
   is a row vector of b.n cells and cell j is the sum whose terms are, in
   stored order, the products a[i] * e of exactly the stored entries
   (i, j, e) of b with a[i] and e both non-Zero, so that a pair (i, j) that
   is not stored contributes nothing; for a matrix a and a column vector b
   cell i is the sum of the products e * b[j] of the stored entries
   (i, j, e) of a in the same way; and a row vector times a column vector
   is a single cell holding the sum of the element-wise products. *)
C15_Product ==
    SymReturned =>
        IF expr.a.type = "RVec" /\ expr.b.type = "Mat"
        THEN /\ expr.r.type = "RVec" /\ Len(expr.r.data) = expr.b.n
             /\ \A j \in 1..expr.b.n :
                    expr.r.data[j] =
                        OpSum(CellTerms(expr.a, expr.b, TRUE, j - 1, expr.pick,
                                        Len(expr.b.data)))
        ELSE IF expr.a.type = "Mat" /\ expr.b.type = "CVec"
        THEN /\ expr.r.type = "CVec" /\ Len(expr.r.data) = expr.a.m
             /\ \A i \in 1..expr.a.m :
                    expr.r.data[i] =
                        OpSum(CellTerms(expr.b, expr.a, FALSE, i - 1, expr.pick,
                                        Len(expr.a.data)))
        ELSE /\ Len(expr.r.data) = 1
             /\ expr.r.data[1] =
                    OpSum(DotTerms(expr.a.data, expr.b.data, expr.pick,
                                   Len(expr.a.data)))

\* a row vector times a matrix with two entries stored in one column, in
\* two rows, one meeting a Zero of the vector: the cell holds the product of
\* the other alone and the other column is the empty sum
C15_Witness ==
    /\ SymReturned /\ expr.out = "ok"
    /\ expr.a.type = "RVec" /\ expr.b.type = "Mat"
    /\ Len(expr.b.data) = 2
    /\ expr.b.indices[1][2] = 0 /\ expr.b.indices[2][2] = 0
    /\ expr.b.indices[1][1] = 1 /\ expr.b.indices[2][1] = 0
    /\ expr.a.data[1] = Zero /\ expr.a.data[2] # Zero
    /\ expr.b.data[1] # Zero /\ expr.b.data[2] # Zero
    /\ expr.r.data[1] = ExprSum(<<ExprMul(expr.a.data[2], expr.b.data[1])>>)
    /\ expr.r.data[1].strings # <<>>
    /\ expr.r.data[2] = OpSum(<<>>)

\* two stored entries of one column both contribute, in stored order
SymTwoTerms ==
    /\ SymReturned /\ expr.out = "ok"
    /\ expr.a.type = "RVec" /\ expr.b.type = "Mat"
    /\ Len(expr.b.data) = 2
    /\ expr.b.indices[1] = <<1, 1>> /\ expr.b.indices[2] = <<0, 1>>
    /\ expr.b.data[1].type = "Elem" /\ expr.b.data[2].type = "Sum"
    /\ expr.a.data[1].type = "Elem" /\ expr.a.data[2].type = "Prod"
    /\ Len(expr.r.data[2].strings) = 3
    /\ expr.r.data[2].strings[1] = ExprMul(expr.a.data[2], expr.b.data[1])

\* a product without a return inside a branch: the result is built from
\* whatever the pointer read held
SymGarbageTerm ==
    /\ SymReturned /\ expr.out = "garbage"

\* the operands are not a legal product
SymIllegal ==
    /\ expr.pc = "sym" /\ expr.op = "times"
    /\ (expr.a.n # expr.b.m \/ ~LegalKinds(expr.a, expr.b))

(* C16: whenever the operands are not a legal product, a.n # b.m or the
   pair of kinds not one of (RowVector, Matrix), (Matrix, ColumnVector),
   (RowVector, ColumnVector), operator* ends in a fatal assertion and
   returns no value. *)
C16_Claimed == SymIllegal => (expr.out = "assert" /\ expr.r = Idle)

\* the part of it the code has: a.n # b.m is the failed assertion
MismatchAsserts ==
    (expr.pc = "sym" /\ expr.op = "times" /\ expr.a.n # expr.b.m)
        => (expr.out = "assert" /\ expr.r = Idle)

\* a matrix times a matrix of matching inner dimension passes the
\* assertion and hands back a value
MatrixTimesMatrixReturns ==
    /\ SymIllegal
    /\ expr.a.type = "Mat" /\ expr.b.type = "Mat" /\ expr.a.n = expr.b.m
    /\ expr.out = "garbage" /\ expr.r # Idle

(***************************************************************************)
(* The table tensor_product returns (SpecState).                           *)
(***************************************************************************)
\* the sum of a.n_states[i] * b.n_states[j] over the pairs that couple to q
CoupledStates(q) ==
    SumOver({r \in FactorPairs : q \in CoupledLabels(r)},
            [r \in FactorPairs |-> sti.a.n_states[r[1]] * sti.b.n_states[r[2]]])

\* the labels that are kept: coupled to by a pair with a nonzero dimension
\* product, and not greater than target
KeptLabels ==
    {q \in AllCoupled : ~LabelLess(sti.target, q) /\ CoupledStates(q) # 0}

(* C19: the table tensor_product(a, b, target) returns has strictly
   increasing quanta, holds exactly the labels q <= target that some
   (a.quanta[i] + b.quanta[j])[k] gives with a nonzero dimension product,
   each with n_states = min(65535, the sum of a.n_states[i] * b.n_states[j]
   over those pairs); its length is the number of kept labels and
   n_states_total is the sum of n_states. *)
C19_TensorTable ==
    sti.pc = "tensor_product" =>
        /\ \A k \in 1..(Len(sti.c.quanta) - 1) :
               LabelLess(sti.c.quanta[k], sti.c.quanta[k + 1])
        /\ {sti.c.quanta[k] : k \in 1..Len(sti.c.quanta)} = KeptLabels
        /\ Len(sti.c.quanta) = Cardinality(KeptLabels)
        /\ Len(sti.c.n_states) = Len(sti.c.quanta)
        /\ \A k \in 1..Len(sti.c.quanta) :
               sti.c.n_states[k] = Min(U16Max, CoupledStates(sti.c.quanta[k]))
        /\ sti.c.n_states_total = SumSeq(sti.c.n_states)

\* a product with a label left out for its zero dimension, a label above
\* the target left out, and two pairs merged into an entry that saturates
C19_Witness ==
    /\ sti.pc = "tensor_product"
    /\ \E q \in AllCoupled : ~LabelLess(sti.target, q) /\ CoupledStates(q) = 0
    /\ \E q \in AllCoupled : LabelLess(sti.target, q) /\ CoupledStates(q) # 0
    /\ \E k \in 1..Len(sti.c.quanta) :
          /\ Cardinality({r \in FactorPairs : sti.c.quanta[k] \in CoupledLabels(r)}) = 2
          /\ CoupledStates(sti.c.quanta[k]) > U16Max
          /\ sti.c.n_states[k] = U16Max

(***************************************************************************)
(* SpecFilter: filter(a, b, target) on two sorted tables, a of the labels  *)
(* of a left block and b of the labels that complete them to the target.   *)
(***************************************************************************)
\* the labels of a right block: the particle numbers above those of a
FilterPartners ==
    { Label3(p[1], p[2], 0) :
      p \in { p \in (MaxStateN..(MaxStateN + 1)) \X (0..(MaxStateN + 1)) :
                 p[2] <= p[1] /\ (p[1] - p[2]) % 2 = 0 } }

\* a target two spin-0 halves make, and one a spin-1/2 entry meets twice
FilterTargets == { Label3(2 * MaxStateN, 0, 0), Label3(2 * MaxStateN + 1, 1, 0) }

FilterInit ==
    /\ AllocIdle
    /\ lab = Idle /\ cgs = Idle /\ smi = Idle
    /\ expr = Idle /\ mpo = Idle /\ life = Idle
    /\ \E a \in StateTables, b \in StateTablesOver(FilterPartners, StateCounts \ {0}),
          target \in FilterTargets :
          sti = [pc |-> "filter_args", a |-> a, b |-> b, target |-> target,
                 fa |-> a, fb |-> b, out |-> "ok"]

\* filter(a, b, target): both loops, then the end of a function that
\* returns a StateInfo without a return statement: the caller goes on or
\* the call faults
FilterCall ==
    /\ sti.pc = "filter_args"
    /\ \E f \in {Filter(sti.a, sti.b, sti.target)}, out \in {"ok", "fault"} :
          sti' = [sti EXCEPT !.pc = "filter", !.fa = f[1], !.fb = f[2], !.out = out]
    /\ UNCHANGED notState

FilterNext == FilterCall

SpecFilter == FilterInit /\ [][FilterNext]_vars

\* the labels of the range q
RangeLabels(q) == { LabelIndex(q, k) : k \in 0..(LabelCount(q) - 1) }

\* the entries of the table t that complete q to target
Completing(t, q, target) ==
    {j \in 1..Len(t.quanta) :
        t.quanta[j] \in RangeLabels(LabelAdd(target, LabelNeg(q)))}

\* the sum of t.n_states over the entries that complete q to target
CompletingStates(t, q, target) ==
    SumOver(Completing(t, q, target), [j \in 1..Len(t.quanta) |-> t.n_states[j]])

(* C20: filter(a, b, target) leaves the quanta (and so n) of both tables as
   they were; a.n_states[i] becomes the smaller of its old value and the sum
   of the old b.n_states over the labels of target - a.quanta[i] present in
   b; then b.n_states[j] becomes the smaller of its old value and the sum of
   the updated a.n_states over the labels of target - b.quanta[j] present in
   a; each n_states_total is the sum of the new n_states and no entry
   increases. *)
C20_Filter ==
    sti.pc = "filter" =>
        /\ sti.fa.quanta = sti.a.quanta /\ sti.fb.quanta = sti.b.quanta
        /\ Len(sti.fa.n_states) = Len(sti.a.quanta)
        /\ Len(sti.fb.n_states) = Len(sti.b.quanta)
        /\ \A i \in 1..Len(sti.a.quanta) :
              /\ sti.fa.n_states[i] =
                     Min(sti.a.n_states[i],
                         CompletingStates(sti.b, sti.a.quanta[i], sti.target))
              /\ sti.fa.n_states[i] <= sti.a.n_states[i]
        /\ \A j \in 1..Len(sti.b.quanta) :
              /\ sti.fb.n_states[j] =
                     Min(sti.b.n_states[j],
                         CompletingStates(sti.fa, sti.b.quanta[j], sti.target))
              /\ sti.fb.n_states[j] <= sti.b.n_states[j]
        /\ sti.fa.n_states_total = SumSeq(sti.fa.n_states)
        /\ sti.fb.n_states_total = SumSeq(sti.fb.n_states)

\* an entry of a that two entries of b complete is cut to their sum, an
\* entry of a that nothing completes is emptied, as is one of b, and an
\* entry of b that the updated a has room for is kept
C20_Witness ==
    /\ sti.pc = "filter" /\ sti.out = "ok"
    /\ \E i \in 1..Len(sti.a.quanta) :
          /\ Cardinality(Completing(sti.b, sti.a.quanta[i], sti.target)) = 2
          /\ sti.fa.n_states[i] = 2 /\ sti.a.n_states[i] > 2
    /\ \E i \in 1..Len(sti.a.quanta) :
          /\ Completing(sti.b, sti.a.quanta[i], sti.target) = {}
          /\ sti.a.n_states[i] # 0 /\ sti.fa.n_states[i] = 0
    /\ \E j \in 1..Len(sti.b.quanta) :
          /\ Completing(sti.fa, sti.b.quanta[j], sti.target) = {}
          /\ sti.b.n_states[j] # 0 /\ sti.fb.n_states[j] = 0
    /\ \E j \in 1..Len(sti.b.quanta) :
          /\ Completing(sti.fa, sti.b.quanta[j], sti.target) # {}
          /\ sti.fb.n_states[j] = sti.b.n_states[j]

(***************************************************************************)
(* What QCMPO::deallocate frees (SpecLife).                                *)
(***************************************************************************)
\* the index in the pointer table of dalloc that the call k of the
\* constructor takes
SlotOfCall(calls, db, k) ==
    db + Cardinality({j \in 1..k : calls[j].op \in {"allocate", "null"}})

\* the call k of the constructor takes a block that no later call of the
\* constructor gives back
LeftLive(calls, db, k) ==
    /\ calls[k].op = "allocate"
    /\ \A j \in (k + 1)..Len(calls) :
           ~(calls[j].op = "deallocate" /\ calls[j].blk = SlotOfCall(calls, db, k))

\* the blocks the constructor left live, in the order of their allocation
LiveBlocks(calls, db) ==
    [k \in 1..Len(SelectSeq([j \in 1..Len(calls) |-> j],
                            LAMBDA j : LeftLive(calls, db, j))) |->
        [blk |-> SlotOfCall(calls, db,
                     SelectSeq([j \in 1..Len(calls) |-> j],
                               LAMBDA j : LeftLive(calls, db, j))[k]),
         n |-> calls[SelectSeq([j \in 1..Len(calls) |-> j],
                               LAMBDA j : LeftLive(calls, db, j))[k]].n]]

\* a sequence from its last element to its first
Reverse(s) == [k \in 1..Len(s) |-> s[Len(s) + 1 - k]]

\* the blocks deallocate has passed to dalloc, in the order of the calls
FreedBlocks(freed) == [k \in 1..Len(freed) |-> [blk |-> freed[k].blk, n |-> freed[k].n]]

\* mpo->deallocate() has returned
MpoFreed ==
    /\ mpo.pc = "built"
    /\ life.pc \in {"mpo_free", "mps_info_free", "hamil_free", "done"}

\* the names of the operators whose matrix aliases the data of op_prims
AliasNames == {"I", "N", "NN", "C", "D", "A", "AD", "B", "P", "PD", "Q"}

(* C11: once QCMPO::deallocate has returned, the deallocate calls it made
   on dalloc are, call by call, the blocks the constructor (get_site_ops)
   allocated and left live, each once and in exact reverse order of
   allocation, so from site n_sites - 1 down to site 0 and within a site in
   reverse key order; every operator of lop named R, RD or H is among them
   and no operator named I, N, NN, C, D, A, AD, B, P, PD or Q is; none of
   the calls takes the fatal path and no block of the constructor is left
   in the pointer table. *)
C11_ReverseFree ==
    MpoFreed =>
        /\ \A k \in 1..Len(mpo.freed) : mpo.freed[k].op = "deallocate"
        /\ FreedBlocks(mpo.freed) = Reverse(LiveBlocks(mpo.calls, mpo.db))
        /\ \A m \in 1..mpo.n_sites : \A k \in 1..Len(mpo.tensors[m].lop) :
              /\ mpo.tensors[m].lop[k].op.name \in {"R", "RD", "H"} \cup AliasNames
              /\ mpo.tensors[m].lop[k].op.name \in {"R", "RD", "H"}
                     <=> \E f \in 1..Len(mpo.freed) :
                             mpo.freed[f].blk = mpo.tensors[m].lop[k].mat.blk
              /\ mpo.tensors[m].lop[k].op.name \in AliasNames
                     => mpo.tensors[m].lop[k].mat.blk <= mpo.db
        /\ \A f \in 1..Len(mpo.freed) : mpo.freed[f].blk > mpo.db
        /\ life.pc = "mpo_free" =>
              /\ life.out = "ok"
              /\ \A b \in (mpo.db + 1)..Len(life.dalloc.ptr) :
                     life.dalloc.ptr[b] = NullPtr

\* deallocate has freed the blocks of three sites: H, R and RD of more
\* than one site, with aliasing operators between them in lop
C11_Witness ==
    /\ MpoFreed /\ life.pc = "mpo_free" /\ life.out = "ok"
    /\ mpo.n_sites >= 3
    /\ Len(mpo.freed) >= 4
    /\ \E m \in 1..mpo.n_sites : \E k \in 1..Len(mpo.tensors[m].lop) :
          mpo.tensors[m].lop[k].op.name = "R"
    /\ \E m \in 1..mpo.n_sites : \E k \in 1..Len(mpo.tensors[m].lop) :
          mpo.tensors[m].lop[k].op.name = "RD"
    /\ \E m \in 1..mpo.n_sites : \E k \in 1..Len(mpo.tensors[m].lop) :
          mpo.tensors[m].lop[k].op.name \in AliasNames
    /\ \E k \in 1..Len(mpo.calls) :
          mpo.calls[k].op = "deallocate"

(***************************************************************************)
(* OperatorFunctions::iadd (quantum.hpp 1578-1589) and the R and RD site   *)
(* operators of get_site_ops (2172-2207).  A matrix is its factor and the  *)
(* doubles of its data.                                                    *)
(***************************************************************************)
\* x + y computed without rounding
FAddExact(x, y) ==
    FNorm(x.m * (2 ^ (x.e - Min(x.e, y.e))) + y.m * (2 ^ (y.e - Min(x.e, y.e))),
          Min(x.e, y.e))

\* the double x / y for y # 0: the quotient to two bits more than the
\* mantissa holds, with a sticky bit for the remainder, then rounded
FDiv(x, y) ==
    FRound((IF (x.m < 0) = (y.m < 0) THEN 1 ELSE -1)
           * (2 * ((Abs(x.m) * (2 ^ (2 * MantissaBits + 2))) \div Abs(y.m))
              + (IF (Abs(x.m) * (2 ^ (2 * MantissaBits + 2))) % Abs(y.m) = 0
                 THEN 0 ELSE 1)),
           x.e - y.e - (2 * MantissaBits + 2) - 1)

\* MatrixFunctions::iscale(MatrixRef(a.data, 1, a.total_memory), scale)
DataScaled(data, scale) == [k \in 1..Len(data) |-> FMul(scale, data[k])]

\* MatrixFunctions::iadd(a, b, scale): daxpy, y = y + scale * x
DataAdded(y, x, scale) == [k \in 1..Len(y) |-> FAdd(y[k], FMul(scale, x[k]))]

\* iadd that multiplies the data of a by a.factor
IaddAbsorbing(a, b, scale) ==
    [factor |-> FInt(1),
     data |-> IF scale.m # 0
              THEN DataAdded(DataScaled(a.data, a.factor), b.data, FMul(scale, b.factor))
              ELSE DataScaled(a.data, a.factor)]

\* void iadd(SparseMatrix &a, const SparseMatrix &b, double scale = 1.0):
\* the data of a is scaled by 1.0 / a.factor
Iadd(a, b, scale) ==
    [factor |-> FInt(1),
     data |-> IF scale.m # 0
              THEN DataAdded(IF a.factor # FInt(1)
                             THEN DataScaled(a.data, FDiv(FInt(1), a.factor))
                             ELSE a.data,
                             b.data, FMul(scale, b.factor))
              ELSE IF a.factor # FInt(1)
              THEN DataScaled(a.data, FDiv(FInt(1), a.factor))
              ELSE a.data]

\* t(i, m) * sqrt(2) / 4
HoppingFactor(t) == FDiv(FMul(t, FSqrt(2)), FInt(4))

\* case OpNames::R / RD for one key: tf is the factor tmp has before;
\* first is the data of the D (C) primitive, second of the R (RD) primitive
SiteOpOwned(key, tf, first, second) ==
    Iadd([factor |-> FMul(FInt(1), HoppingFactor(key.t)), data |-> first],
         [factor |-> FMul(tf, key.v), data |-> second], FInt(1))

\* the factor of tmp after the keys 1..k: tmp is made once for the call
\* and every key multiplies its factor by v(i, m, m, m)
RECURSIVE TmpFactor(_, _)
TmpFactor(keys, k) ==
    IF k = 0 THEN FInt(1) ELSE FMul(TmpFactor(keys, k - 1), keys[k].v)

\* the loop of get_site_ops over the R (RD) keys of one site
SiteOpsOwned(keys, first, second) ==
    [k \in 1..Len(keys) |->
        SiteOpOwned(keys[k], TmpFactor(keys, k - 1), first, second)]

(***************************************************************************)
(* SpecIadd: one call of iadd, or the R (RD) operators of one site.        *)
(***************************************************************************)
MaxData == 2        \* total_memory of the matrices

IaddFactors == { FInt(1), FInt(-1), FInt(2), FHalf }
IaddValues == { FInt(0), FInt(1), FInt(3) }
IaddScales == { FInt(0), FInt(1), FInt(2) }
IaddData == [1..MaxData -> IaddValues]

\* the integrals of one key: t(i, m) # 0, so that the factor of the
\* operator is not 0.0, and v(i, m, m, m)
SiteKeys == [t : {FInt(1), FInt(2)}, v : {FInt(0), FInt(1), FInt(2)}]

IaddInit ==
    /\ AllocIdle
    /\ lab = Idle /\ cgs = Idle /\ sti = Idle
    /\ expr = Idle /\ mpo = Idle /\ life = Idle
    /\ \/ \E af \in IaddFactors, ad \in IaddData, bf \in {FInt(1), FInt(2)},
            bd \in IaddData, scale \in IaddScales :
             smi = [pc |-> "iadd", a |-> [factor |-> af, data |-> ad],
                    b |-> [factor |-> bf, data |-> bd], scale |-> scale,
                    keys |-> <<>>, r |-> <<>>]
       \/ \E keys \in UNION { [1..n -> SiteKeys] : n \in {1, 2} },
            first \in IaddData, second \in IaddData :
             smi = [pc |-> "site", a |-> [factor |-> FInt(1), data |-> first],
                    b |-> [factor |-> FInt(1), data |-> second], scale |-> FInt(1),
                    keys |-> keys, r |-> <<>>]

notIadd == <<alloc, live, last, run, lab, cgs, sti, expr, mpo, life>>

\* opf->iadd(a, b, scale)
IaddCall ==
    /\ smi.pc = "iadd"
    /\ smi' = [smi EXCEPT !.pc = "iadd_done", !.r = <<Iadd(smi.a, smi.b, smi.scale)>>]
    /\ UNCHANGED notIadd

\* get_site_ops on the R (RD) keys of a site
SiteOpsCall ==
    /\ smi.pc = "site"
    /\ smi' = [smi EXCEPT !.pc = "site_done",
                          !.r = SiteOpsOwned(smi.keys, smi.a.data, smi.b.data)]
    /\ UNCHANGED notIadd

IaddNext == IaddCall \/ SiteOpsCall

SpecIadd == IaddInit /\ [][IaddNext]_vars

\* old a.factor * old a.data[k] + scale * b.factor * b.data[k], exactly
IaddValue(a, b, scale, k) ==
    FAddExact(FMulExact(a.factor, a.data[k]),
              FMulExact(FMulExact(scale, b.factor), b.data[k]))

\* the value x is a double
Representable(x) == FRound(x.m, x.e) = x

\* the effective value of the element k of the matrix a
Effective(a, k) == FMulExact(a.factor, a.data[k])

\* iadd has made a.factor 1 and the effective value of a what the claim
\* says, wherever that value is a double
IaddAbsorbs ==
    smi.pc = "iadd_done" =>
        /\ smi.r[1].factor = FInt(1)
        /\ \A k \in 1..MaxData :
               Representable(IaddValue(smi.a, smi.b, smi.scale, k))
                   => Effective(smi.r[1], k) = IaddValue(smi.a, smi.b, smi.scale, k)

\* the operator of every R (RD) key is (t * sqrt(2) / 4) * first + v * second
SiteOpsComposed ==
    smi.pc = "site_done" =>
        \A n \in 1..Len(smi.keys) : \A k \in 1..MaxData :
            Effective(smi.r[n], k) =
                FAdd(FMul(HoppingFactor(smi.keys[n].t), smi.a.data[k]),
                     FMul(smi.keys[n].v, smi.b.data[k]))

(* C12: iadd(a, b, scale) with a.factor # 0 ends with a.factor = 1 and
   with factor times data of a equal, element by element, to old a.factor *
   old a.data + scale * b.factor * b.data; and the R (RD) site operator
   equals (t(i,m) * sqrt(2) / 4) * D-primitive + v(i,m,m,m) * R-primitive
   (C- and RD-primitive). *)
C12_Claimed == IaddAbsorbs /\ SiteOpsComposed

\* what the code has of it: the claim's value when a.factor is 1 or -1,
\* its own inverse
IaddUnitFactor ==
    (smi.pc = "iadd_done" /\ smi.a.factor \in {FInt(1), FInt(-1)}) =>
        /\ smi.r[1].factor = FInt(1)
        /\ \A k \in 1..MaxData :
               Representable(IaddValue(smi.a, smi.b, smi.scale, k))
                   => Effective(smi.r[1], k) = IaddValue(smi.a, smi.b, smi.scale, k)

\* a.factor = 2: 2 * 1 + 1 * 1 * 1 = 3 is claimed, 1 / 2 + 1 = 1.5 is in a
IaddDivides ==
    /\ smi.pc = "iadd_done"
    /\ smi.a.factor = FInt(2) /\ smi.a.data[1] = FInt(1)
    /\ smi.b.factor = FInt(1) /\ smi.b.data[1] = FInt(1) /\ smi.scale = FInt(1)
    /\ smi.r[1].data[1] = [m |-> 3, e |-> -1]

\* the second R key of a site gets the product of both integrals v
SiteOpsAccumulate ==
    /\ smi.pc = "site_done" /\ Len(smi.keys) = 2
    /\ smi.keys[1].v = FInt(2) /\ smi.keys[2].v = FInt(1)
    /\ smi.a.data[1] = FInt(0) /\ smi.b.data[1] = FInt(1)
    /\ smi.r[2].data[1] = FInt(2)

(***************************************************************************)
(* SpecEntries: initialize on a ket table of the labels of a site and a    *)
(* bra table of the labels one or two particles above, so that dq + q      *)
(* meets bra with more than one of its spins.                              *)
(***************************************************************************)
EntriesInit ==
    /\ AllocIdle
    /\ lab = Idle /\ cgs = Idle /\ sti = Idle
    /\ expr = Idle /\ mpo = Idle /\ life = Idle
    /\ \E bra \in StateTablesOver(FilterPartners, SmiCounts), ket \in SmiTables,
          dq \in SmiDeltas, wfn \in BOOLEAN :
          smi = [pc |-> "args", bra |-> bra, ket |-> ket, dq |-> dq, wfn |-> wfn]

SpecEntries == EntriesInit /\ [][SMINext]_vars

\* q' for the ket entry i: the label, negated for a wavefunction
KetLabel(i) == IF smi.wfn THEN LabelNeg(smi.ket.quanta[i]) ELSE smi.ket.quanta[i]

\* (dq + q')[k] for the ket entry i
BraLabel(i, k) == LabelIndex(LabelAdd(smi.dq, KetLabel(i)), k)

\* the pairs (ket entry i, index k) with (dq + q')[k] present in bra
CoupledPairs ==
    UNION { { <<i, k>> : k \in { k \in 0..(LabelCount(LabelAdd(smi.dq, KetLabel(i))) - 1) :
                                   \E j \in 1..Len(smi.bra.quanta) :
                                       smi.bra.quanta[j] = BraLabel(i, k) } } :
            i \in 1..Len(smi.ket.quanta) }

\* the entry e of the table is the entry of the pair p
EntryOf(e, p) ==
    /\ GetKet(smi.info.quanta[e]) = KetLabel(p[1])
    /\ GetBra(smi.info.quanta[e], smi.dq) = BraLabel(p[1], p[2])
    /\ smi.info.n_states_ket[e] = smi.ket.n_states[p[1]]
    /\ \E j \in 1..Len(smi.bra.quanta) :
          /\ smi.bra.quanta[j] = BraLabel(p[1], p[2])
          /\ smi.info.n_states_bra[e] = smi.bra.n_states[j]

(* C21: after initialize(bra, ket, dq, is_fermion, wfn) the table holds
   exactly one entry for every pair (ket label q, index k) with
   (dq + q')[k] present in bra, q' = q or -q for a wavefunction; the entry e
   has e.get_ket() = q', e.get_bra(dq) = (dq + q')[k], n_states_ket the
   dimension of q in ket and n_states_bra the dimension of (dq + q')[k] in
   bra; there are no other entries. *)
C21_Entries ==
    smi.pc = "initialize" =>
        /\ smi.info.n = Cardinality(CoupledPairs)
        /\ Len(smi.info.quanta) = smi.info.n
        /\ \A p \in CoupledPairs :
               Cardinality({e \in 1..smi.info.n : EntryOf(e, p)}) = 1
        /\ \A e \in 1..smi.info.n : \E p \in CoupledPairs : EntryOf(e, p)

\* a ket label that dq couples to two labels of bra, next to one that it
\* couples to a single label, for an operator and for a wavefunction
C21_Witness ==
    /\ smi.pc = "initialize"
    /\ \E i \in 1..Len(smi.ket.quanta) :
          /\ <<i, 0>> \in CoupledPairs /\ <<i, 1>> \in CoupledPairs
    /\ \E i \in 1..Len(smi.ket.quanta) :
          /\ <<i, 0>> \in CoupledPairs /\ <<i, 1>> \notin CoupledPairs
    /\ smi.info.n = 3

\* a wavefunction table with an entry: the ket label is stored negated
EntriesNegated ==
    /\ smi.pc = "initialize" /\ smi.wfn
    /\ smi.info.n >= 1
    /\ \E i \in 1..Len(smi.ket.quanta) :
          /\ LabelN(smi.ket.quanta[i]) # 0
          /\ \E p \in CoupledPairs : p[1] = i

(***************************************************************************)
(* What Hamiltonian::filter_site_ops leaves in pmat and ops (SpecLife).    *)
(***************************************************************************)
\* the matrices get_site_ops gave for the keys of the tensor of site m1 - 1,
\* before the last loop of filter_site_ops erased any; the blocks are
\* counted from the table as the constructor found it
ResolvedOps(m1) ==
    GetSiteOpsOf(life.hamil, life.fcidump, m1 - 1,
                 FilterKeys(SiteMatrix(life.hamil, life.fcidump, m1 - 1).data),
                 mpo.db).ops

\* the operator of the elementary operator x resolved to a zero operator
ZeroOp(ops, x) == NoMatrix(OpsAt(ops, ElemAbs(x)))

\* every term of the sum x resolved to a zero operator
AllTermsZero(ops, x) ==
    \A r \in 1..Len(x.strings) : ZeroOp(ops, x.strings[r].ops[1])

\* the entry x of the matrix as it was built is Zero after the second loop
Vanishes(ops, x) ==
    \/ x.type = "Zero"
    \/ x.type = "Elem" /\ ZeroOp(ops, x)
    \/ x.type = "Sum" /\ AllTermsZero(ops, x)

\* the positions of the matrix as it was built whose entry is not Zero
\* after the second loop, in their order
Survivors(ops, pmat) ==
    SelectSeq([k \in 1..Len(pmat.data) |-> k],
              LAMBDA k : ~Vanishes(ops, pmat.data[k]))

\* a vector keeps its length: an entry is Zero after the call if it
\* vanishes and is the entry that was built if not
VectorFiltered(ops, pmat, lmat) ==
    /\ Len(lmat.data) = Len(pmat.data)
    /\ \A k \in 1..Len(pmat.data) :
           lmat.data[k] = IF Vanishes(ops, pmat.data[k]) THEN Zero ELSE pmat.data[k]

\* a matrix keeps the entries that do not vanish, in their order, each
\* with its pair (i, j)
MatrixFiltered(pmat, lmat, kept) ==
    /\ Len(lmat.data) = Len(lmat.indices)
    /\ Len(lmat.data) = Len(kept)
    /\ \A k \in 1..Len(lmat.data) :
           /\ lmat.data[k].type # "Zero"
           /\ lmat.data[k] = pmat.data[kept[k]]
           /\ lmat.indices[k] = pmat.indices[kept[k]]

\* the tensor t of a site against the matrix pmat that was built for it
\* and the operators ops that get_site_ops resolved
SiteFiltered(ops, pmat, t) ==
    /\ \A k \in 1..Len(t.lop) : ~NoMatrix(t.lop[k].mat)
    /\ t.lmat.type = pmat.type
    /\ IF pmat.type = "Mat"
       THEN MatrixFiltered(pmat, t.lmat, Survivors(ops, pmat))
       ELSE VectorFiltered(ops, pmat, t.lmat)

\* the constructor of QCMPO has returned
MpoBuilt == mpo.pc = "built" /\ life.out = "ok"

(* C22: after filter_site_ops(m, pmat, ops) no key of ops maps to an
   operator with factor == 0 or with an info of n == 0; every Elem entry
   of pmat whose operator resolved to such an operator is Zero; a Sum entry
   is Zero exactly when all of its terms resolved to such operators, and is
   the entry that was built otherwise; and a SymbolicMatrix has data and
   indices of one length, no Zero entry, and the surviving entries in their
   order with their pairs (i, j). *)
C22_Filtered ==
    MpoBuilt =>
        \A m1 \in 1..mpo.n_sites :
            SiteFiltered(ResolvedOps(m1),
                         SiteMatrix(life.hamil, life.fcidump, m1 - 1),
                         mpo.tensors[m1])

\* an entry of the kind kind of the matrix built for site m1 - 1 vanishes
VanishedKind(m1, kind) ==
    \E k \in 1..Len(SiteMatrix(life.hamil, life.fcidump, m1 - 1).data) :
        /\ SiteMatrix(life.hamil, life.fcidump, m1 - 1).data[k].type = kind
        /\ Vanishes(ResolvedOps(m1), SiteMatrix(life.hamil, life.fcidump, m1 - 1).data[k])

\* an operator of site m1 - 1 was erased from ops
ErasedOp(m1) == Len(mpo.tensors[m1].lop) < Len(ResolvedOps(m1))

\* a matrix lost a sum and an elementary entry and kept others, and an
\* operator was erased
C22_Witness ==
    /\ MpoBuilt
    /\ \E m1 \in 1..mpo.n_sites :
           /\ mpo.tensors[m1].lmat.type = "Mat"
           /\ VanishedKind(m1, "Elem") /\ VanishedKind(m1, "Sum")
           /\ Len(mpo.tensors[m1].lmat.data) > 0
           /\ ErasedOp(m1)

\* a matrix keeps a sum of which a term resolved to a zero operator
SumSurvives ==
    /\ MpoBuilt
    /\ \E m1 \in 1..mpo.n_sites :
           /\ mpo.tensors[m1].lmat.type = "Mat"
           /\ \E k \in 1..Len(mpo.tensors[m1].lmat.data) :
                  /\ mpo.tensors[m1].lmat.data[k].type = "Sum"
                  /\ \E r \in 1..Len(mpo.tensors[m1].lmat.data[k].strings) :
                         ZeroOp(ResolvedOps(m1),
                                mpo.tensors[m1].lmat.data[k].strings[r].ops[1])

\* a vector keeps a Zero entry where an elementary entry vanished
VectorKeepsZero ==
    /\ MpoBuilt
    /\ \E m1 \in 1..mpo.n_sites :
           /\ mpo.tensors[m1].lmat.type # "Mat"
           /\ VanishedKind(m1, "Elem")

\* x is a key of lop
IsKey(lop, x) == \E k \in 1..Len(lop) : ElemEq(lop[k].op, ElemAbs(x))

\* every elementary operator the entry x refers to is a key of lop
RefersToKeys(lop, x) ==
    IF x.type = "Elem" THEN IsKey(lop, x)
    ELSE IF x.type = "Sum"
    THEN \A r \in 1..Len(x.strings) : IsKey(lop, x.strings[r].ops[1])
    ELSE TRUE

(* C29: after filter_site_ops(m, pmat, ops) every elementary operator that
   a surviving entry of pmat refers to, the entry itself for an Elem and
   every term of a surviving Sum, is a key of ops (mapped to a non-zero
   matrix): no surviving entry refers to an operator erased from ops. *)
C29_Claimed ==
    MpoBuilt =>
        \A m1 \in 1..mpo.n_sites :
            \A k \in 1..Len(mpo.tensors[m1].lmat.data) :
                RefersToKeys(mpo.tensors[m1].lop, mpo.tensors[m1].lmat.data[k])

\* every surviving elementary entry is a key of ops, and every surviving
\* sum has a term that is
SurvivorsResolve ==
    MpoBuilt =>
        \A m1 \in 1..mpo.n_sites :
            \A k \in 1..Len(mpo.tensors[m1].lmat.data) :
                /\ mpo.tensors[m1].lmat.data[k].type = "Elem"
                       => IsKey(mpo.tensors[m1].lop, mpo.tensors[m1].lmat.data[k])
                /\ mpo.tensors[m1].lmat.data[k].type = "Sum"
                       => \E r \in 1..Len(mpo.tensors[m1].lmat.data[k].strings) :
                              IsKey(mpo.tensors[m1].lop,
                                    mpo.tensors[m1].lmat.data[k].strings[r].ops[1])

(***************************************************************************)
(* The net scale below which OperatorFunctions::iadd is said to skip       *)
(* (SpecSkip): one call of iadd with scales and factors of which some are  *)
(* tiny without being 0.0.                                                 *)
(***************************************************************************)
TinyExp == -67          \* #define TINY 1E-20: 1.4757... * 2^-67
TinyMantissa == 14757   \* the mantissa of TINY in units of 1 / TinyUnit
TinyUnit == 10000

\* abs(x) < TINY for a double of the mantissa of the model
BelowTiny(x) ==
    \/ x.m = 0
    \/ x.e - TinyExp < -MantissaBits
    \/ /\ x.e - TinyExp <= 0
       /\ Abs(x.m) * TinyUnit < TinyMantissa * (2 ^ (TinyExp - x.e))

\* 2^-70, about 8.5E-22: not 0.0 and below TINY, also when doubled
FTiny == [m |-> 1, e |-> -70]

SkipScales == { FInt(0), FInt(1), FTiny }
SkipFactors == { FInt(1), FInt(2), FTiny }

SkipInit ==
    /\ AllocIdle
    /\ lab = Idle /\ cgs = Idle /\ sti = Idle
    /\ expr = Idle /\ mpo = Idle /\ life = Idle
    /\ \E af \in IaddFactors, ad \in IaddData, bf \in SkipFactors,
         bd \in IaddData, scale \in SkipScales :
          smi = [pc |-> "skip", a |-> [factor |-> af, data |-> ad],
                 b |-> [factor |-> bf, data |-> bd], scale |-> scale,
                 keys |-> <<>>, r |-> <<>>]

\* opf->iadd(a, b, scale)
SkipCall ==
    /\ smi.pc = "skip"
    /\ smi' = [smi EXCEPT !.pc = "skip_done", !.r = <<Iadd(smi.a, smi.b, smi.scale)>>]
    /\ UNCHANGED notIadd

SkipNext == SkipCall

SpecSkip == SkipInit /\ [][SkipNext]_vars

\* factor times data of a is after the call what it was before
SameValue ==
    \A k \in 1..MaxData : Effective(smi.r[1], k) = Effective(smi.a, k)

(* C24: iadd(a, b, scale) skips the accumulation entirely, a's effective
   value (factor times data) being the same before and after the call,
   whenever the net scale scale * b.factor has a magnitude below 1e-20,
   also when it is tiny without being zero. *)
C24_Claimed ==
    (smi.pc = "skip_done" /\ BelowTiny(FMul(smi.scale, smi.b.factor))) => SameValue

\* what the code has of it: with scale == 0.0 and a.factor 1 or -1 the
\* value of a stays
SkipsOnZero ==
    (smi.pc = "skip_done" /\ smi.scale = FInt(0)
        /\ smi.a.factor \in {FInt(1), FInt(-1)}) => SameValue

\* a net scale that is tiny and not 0.0 is accumulated: a.factor is 1.0
\* and an element 0.0 of a ends as scale * b.factor * b.data
TinyAccumulates ==
    /\ smi.pc = "skip_done"
    /\ smi.a.factor = FInt(1) /\ smi.a.data[1] = FInt(0)
    /\ smi.scale = FTiny /\ smi.b.factor = FInt(1) /\ smi.b.data[1] = FInt(1)
    /\ BelowTiny(FMul(smi.scale, smi.b.factor))
    /\ smi.r[1].data[1] = FTiny

\* scale == 0.0 skips the accumulation and still divides the data of a by
\* a.factor: 2 * 1 before, 1 / 2 after
SkipRescales ==
    /\ smi.pc = "skip_done"
    /\ smi.scale = FInt(0) /\ smi.a.factor = FInt(2) /\ smi.a.data[1] = FInt(1)
    /\ smi.r[1].factor = FInt(1) /\ smi.r[1].data[1] = FHalf

(***************************************************************************)
(* OperatorFunctions::tensor_product and product (quantum.hpp 1590-1683):  *)
(* which elements of c.data a call writes.  A matrix is its info, its      *)
(* factor and its total_memory; its data is the range 0..total_memory-1.   *)
(***************************************************************************)
\* SpinLabel operator-(SpinLabel other) const
LabelSub(p, q) == LabelAdd(p, LabelNeg(q))

\* info->n_states_total[idx] for the index idx from 1
BlockOffset(info, idx) ==
    info.n_states_total[idx][1] * Half + info.n_states_total[idx][2]

\* the daxpy calls with every row of c one row further down
TensorWritesNextRow(am, an, bm, bn, off, cn, stride) ==
    { off + (ik[1] * bm + ik[2] + 1) * cn + jt[1] * bn + stride + jt[2] :
        ik \in (0..(am - 1)) \X (0..(bm - 1)),
        jt \in (0..(an - 1)) \X (0..(bn - 1)) }

\* MatrixFunctions::tensor_product(a, conja, b, conjb, c, scale, stride)
\* with !conja and !conjb: the elements of the buffer of c that the daxpy
\* calls write, c being n columns wide and beginning at off
TensorWrites(am, an, bm, bn, off, cn, stride) ==
    { off + (ik[1] * bm + ik[2]) * cn + jt[1] * bn + stride + jt[2] :
        ik \in (0..(am - 1)) \X (0..(bm - 1)),
        jt \in (0..(an - 1)) \X (0..(bn - 1)) }

\* cq, cqprime, bq, bqprime of the blocks ic and ib (from 1)
BraOf(info, i) == GetBra(info.quanta[i], info.delta_quantum)
KetOf(info, i) == GetKet(info.quanta[i])

\* aqs = cq - bq and aqps = cqprime - bqprime
Aqs(o, ic, ib) == LabelSub(BraOf(o.c.info, ic), BraOf(o.b.info, ib))
Aqps(o, ic, ib) == LabelSub(KetOf(o.c.info, ic), KetOf(o.b.info, ib))

\* aq = aqs[k], aqpds = aqs[k] - adq, aqprime = aqpds[l]
Aq(o, ic, ib, k) == LabelIndex(Aqs(o, ic, ib), k)
Aqpds(o, ic, ib, k) == LabelSub(Aq(o, ic, ib, k), o.a.info.delta_quantum)
AqPrime(o, ic, ib, k, l) == LabelIndex(Aqpds(o, ic, ib, k), l)

\* ia, from 0, for the step (ic, ib, k, l); -1 where nothing is written
TensorIa(o, ic, ib, k, l) ==
    IF LabelFind(Aqps(o, ic, ib), AqPrime(o, ic, ib, k, l)) # -1
       /\ LabelCombine(o.a.info.delta_quantum, Aq(o, ic, ib, k),
                       AqPrime(o, ic, ib, k, l)) # InvalidLabel
    THEN FindState(o.a.info.quanta,
                   LabelCombine(o.a.info.delta_quantum, Aq(o, ic, ib, k),
                                AqPrime(o, ic, ib, k, l)))
    ELSE -1

\* the body of the loop over l for a block ia of a that was found: st is
\* row_stride, col_stride, n_bra and the elements written so far (the
\* strides of the blocks of the model stay far below what a uint32_t
\* holds); MatrixFunctions::tensor_product asserts false for a conjugate
TensorFound(o, ic, ib, ia, st) ==
    IF o.a.conj \/ o.b.conj THEN [st EXCEPT !.out = "assert"]
    ELSE
    [out |-> "ok",
     row |-> st.row,
     col |-> st.col + o.a.info.n_states_ket[ia + 1] * o.b.info.n_states_ket[ib],
     n_bra |-> o.a.info.n_states_bra[ia + 1],
     w |-> st.w \cup TensorWrites(o.a.info.n_states_bra[ia + 1],
                                  o.a.info.n_states_ket[ia + 1],
                                  o.b.info.n_states_bra[ib],
                                  o.b.info.n_states_ket[ib],
                                  BlockOffset(o.c.info, ic),
                                  o.c.info.n_states_ket[ic],
                                  st.row * o.c.info.n_states_ket[ic] + st.col)]

\* the body of the loop over l
TensorStep(o, ic, ib, ia, st) ==
    IF ia = -1 THEN st ELSE TensorFound(o, ic, ib, ia, st)

\* for (int l = 0; l < aqpds.count(); l++), from l on
RECURSIVE TensorL(_, _, _, _, _, _)
TensorL(o, ic, ib, k, l, st) ==
    IF st.out # "ok" \/ l >= LabelCount(Aqpds(o, ic, ib, k)) THEN st
    ELSE TensorL(o, ic, ib, k, l + 1,
                 TensorStep(o, ic, ib, TensorIa(o, ic, ib, k, l), st))

\* row_stride += n_bra * b.info->n_states_bra[ib]
RowAdvanced(o, ib, st) ==
    [st EXCEPT !.row = st.row + st.n_bra * o.b.info.n_states_bra[ib]]

\* for (int k = 0; k < aqs.count(); k++), from k on
RECURSIVE TensorK(_, _, _, _, _)
TensorK(o, ic, ib, k, st) ==
    IF st.out # "ok" \/ k >= LabelCount(Aqs(o, ic, ib)) THEN st
    ELSE TensorK(o, ic, ib, k + 1,
                 RowAdvanced(o, ib, TensorL(o, ic, ib, k, 0, [st EXCEPT !.n_bra = 0])))

\* for (int ib = 0; ib < b.info->n; ib++), from ib on
RECURSIVE TensorB(_, _, _, _)
TensorB(o, ic, ib, st) ==
    IF st.out # "ok" \/ ib > o.b.info.n THEN st
    ELSE TensorB(o, ic, ib + 1, TensorK(o, ic, ib, 0, st))

\* for (int ic = 0; ic < c.info->n; ic++), from ic on, with
\* uint32_t row_stride = 0, col_stride = 0 for every ic
RECURSIVE TensorC(_, _, _)
TensorC(o, ic, st) ==
    IF st.out # "ok" \/ ic > o.c.info.n THEN st
    ELSE TensorC(o, ic + 1,
                 TensorB(o, ic, 1, [st EXCEPT !.row = 0, !.col = 0, !.n_bra = 0]))

\* what a call has done: out is "assert" where an assertion failed, w are
\* the elements of c.data written
Written(st) == [out |-> st.out, w |-> st.w]

\* scale * a.factor * b.factor
NetScale(o) == FMul(FMul(o.scale, o.a.factor), o.b.factor)

\* void tensor_product(const SparseMatrix &a, const SparseMatrix &b,
\*                     SparseMatrix &c, double scale = 1.0)
OpTensorProduct(o) ==
    IF o.c.factor # FInt(1) THEN [out |-> "assert", w |-> {}]
    ELSE IF BelowTiny(NetScale(o)) THEN [out |-> "ok", w |-> {}]
    ELSE IF o.b.info.n > 3 THEN [out |-> "assert", w |-> {}]
    ELSE Written(TensorC(o, 1, [out |-> "ok", row |-> 0, col |-> 0, n_bra |-> 0, w |-> {}]))

\* the step k of the loop of product on the block ic: ia and ib from 0,
\* -1 where the step multiplies nothing
ProductIa(o, ic, k) ==
    FindState(o.a.info.quanta,
              SetTwosLow(LabelIndex(LabelSub(BraOf(o.c.info, ic),
                                             o.a.info.delta_quantum), k),
                         LabelTwos(BraOf(o.c.info, ic))))

ProductIb(o, ic, k) ==
    IF LabelCombine(o.b.info.delta_quantum,
                    LabelIndex(LabelSub(BraOf(o.c.info, ic),
                                        o.a.info.delta_quantum), k),
                    KetOf(o.c.info, ic)) = InvalidLabel
    THEN -1
    ELSE FindState(o.b.info.quanta,
                   LabelCombine(o.b.info.delta_quantum,
                                LabelIndex(LabelSub(BraOf(o.c.info, ic),
                                                    o.a.info.delta_quantum), k),
                                KetOf(o.c.info, ic)))

\* MatrixFunctions::multiply(a[ia], a.conj, b[ib], b.conj, c[ic], scale, 1.0):
\* the assertion on the shapes, then dgemm on a.m * b.n elements of c
Multiply(o, ic, ia, ib, st) ==
    IF o.a.conj \/ o.b.conj THEN [out |-> "assert", w |-> st.w]
    ELSE IF ~(/\ o.a.info.n_states_ket[ia + 1] = o.b.info.n_states_bra[ib + 1]
              /\ o.c.info.n_states_bra[ic] = o.a.info.n_states_bra[ia + 1]
              /\ o.c.info.n_states_ket[ic] = o.b.info.n_states_ket[ib + 1])
    THEN [out |-> "assert", w |-> st.w]
    ELSE [out |-> "ok",
          w |-> st.w \cup
                { BlockOffset(o.c.info, ic) + x :
                    x \in 0..(o.a.info.n_states_bra[ia + 1]
                              * o.b.info.n_states_ket[ib + 1] - 1) }]

\* the body of the loop over k
ProductStep(o, ic, ia, ib, st) ==
    IF ia = -1 \/ ib = -1 THEN st ELSE Multiply(o, ic, ia, ib, st)

\* for (int k = 0; k < aps.count(); k++), from k on
RECURSIVE ProductK(_, _, _, _)
ProductK(o, ic, k, st) ==
    IF st.out # "ok"
       \/ k >= LabelCount(LabelSub(BraOf(o.c.info, ic), o.a.info.delta_quantum))
    THEN st
    ELSE ProductK(o, ic, k + 1,
                  ProductStep(o, ic, ProductIa(o, ic, k),
                              IF ProductIa(o, ic, k) = -1 THEN -1
                              ELSE ProductIb(o, ic, k), st))

\* for (int ic = 0; ic < c.info->n; ic++), from ic on
RECURSIVE ProductC(_, _, _)
ProductC(o, ic, st) ==
    IF st.out # "ok" \/ ic > o.c.info.n THEN st
    ELSE ProductC(o, ic + 1, ProductK(o, ic, 0, st))

\* void product(const SparseMatrix &a, const SparseMatrix &b,
\*              const SparseMatrix &c, double scale = 1.0)
OpProduct(o) ==
    IF o.c.factor # FInt(1) THEN [out |-> "assert", w |-> {}]
    ELSE IF BelowTiny(NetScale(o)) THEN [out |-> "ok", w |-> {}]
    ELSE ProductC(o, 1, [out |-> "ok", w |-> {}])

(***************************************************************************)
(* SpecProduct: one call of tensor_product or product on matrices whose    *)
(* infos SparseMatrixInfo::initialize built: a on a block basis, b on the  *)
(* basis of a site, c on the tensor product of the two or on the basis of  *)
(* a alone.                                                                *)
(***************************************************************************)
MaxProdStates == 2      \* 1..MaxProdStates states in an entry of the block basis

\* the labels of a site: n = 0, 1, 2 with the spin of n
OneSiteLabels == { Label3(n, n % 2, 0) : n \in 0..2 }

BlockBases == StateTablesOver(OneSiteLabels, 1..MaxProdStates)

\* 2^-35, about 2.9E-11: above TINY, its square below
FSmall == [m |-> 1, e |-> -35]

\* a matrix allocated for the info of dq between the states of basis
MatrixOn(basis, dq, factor) ==
    [info |-> Initialize(basis, basis, dq, LabelN(dq) % 2 = 1, FALSE, 0),
     factor |-> factor, conj |-> FALSE,
     total_memory |-> GetTotalMemory(Initialize(basis, basis, dq, LabelN(dq) % 2 = 1,
                                                FALSE, 0))[2]]

\* the delta quanta: the vacuum, a creation and a destruction operator, and
\* the pair of two creation operators
ProdDeltasA == { Vacuum, Label3(1, 1, 0) }
ProdDeltasB == { Vacuum, Label3(1, 1, 0), LabelNeg(Label3(1, 1, 0)) }
ProdDeltasC == { Vacuum, Label3(1, 1, 0), Label3(2, 0, 0) }

notProduct == <<alloc, live, last, run, lab, sti, smi, expr, mpo, life>>

ProductInit ==
    /\ AllocIdle
    /\ lab = Idle /\ sti = Idle /\ smi = Idle
    /\ expr = Idle /\ mpo = Idle /\ life = Idle
    /\ \E basis \in BlockBases, whole \in BOOLEAN,
         adq \in ProdDeltasA, bdq \in ProdDeltasB, cdq \in ProdDeltasC,
         af \in {FInt(1), FSmall}, scale \in {FInt(1), FSmall, FInt(0)},
         cf \in {FInt(1), FInt(2)} :
          cgs = [pc |-> "operands", whole |-> whole,
                 o |-> [a |-> MatrixOn(basis, adq, af),
                        b |-> MatrixOn(SiteBasis(Vacuum, 0), bdq, FInt(1)),
                        c |-> MatrixOn(IF whole
                                       THEN TensorProduct(basis, SiteBasis(Vacuum, 0),
                                                          <<127, 255, 255, 255>>)
                                       ELSE basis, cdq, cf),
                        scale |-> scale],
                 r |-> [out |-> "ok", w |-> {}]]

\* opf->tensor_product(a, b, c, scale)
TensorProductCall ==
    /\ cgs.pc = "operands"
    /\ cgs' = [cgs EXCEPT !.pc = "tensor_product", !.r = OpTensorProduct(cgs.o)]
    /\ UNCHANGED notProduct

\* opf->product(a, b, c, scale)
ProductCall ==
    /\ cgs.pc = "operands"
    /\ cgs' = [cgs EXCEPT !.pc = "product", !.r = OpProduct(cgs.o)]
    /\ UNCHANGED notProduct

ProductNext == TensorProductCall \/ ProductCall

SpecProduct == ProductInit /\ [][ProductNext]_vars

\* one of the two calls has returned
ProductReturned == cgs.pc \in {"tensor_product", "product"} /\ cgs.r.out = "ok"

\* a net scale below TINY: no element of c is written
TinyLeaves ==
    (cgs.pc \in {"tensor_product", "product"} /\ BelowTiny(NetScale(cgs.o)))
        => cgs.r.w = {}

\* every element written lies in [0, c.total_memory)
WritesInside == \A x \in cgs.r.w : 0 <= x /\ x < cgs.o.c.total_memory

(* C23: tensor_product(a, b, c, scale) and product(a, b, c, scale) leave
   every element of c's data unchanged whenever |scale * a.factor *
   b.factor| < 1e-20, and with a larger net scale they write only inside
   c's own buffer, the range [0, c.total_memory). *)
C23_Claimed == TinyLeaves /\ (ProductReturned => WritesInside)

\* the same with tensor_product called on a c whose info spans the tensor
\* product of the bases of a and b
C23_WritesInside ==
    /\ TinyLeaves
    /\ (ProductReturned /\ (cgs.whole \/ cgs.pc = "product")) => WritesInside

\* tensor_product has coupled a creation operator of the block with a
\* creation or destruction operator of the site and written elements of c
C23_Witness ==
    /\ cgs.pc = "tensor_product" /\ cgs.r.out = "ok" /\ cgs.whole
    /\ cgs.o.a.info.delta_quantum # Vacuum
    /\ cgs.o.b.info.delta_quantum # Vacuum
    /\ ~BelowTiny(NetScale(cgs.o))
    /\ Cardinality(cgs.r.w) > 3

\* tensor_product of two operators of the vacuum label writes all of c
WritesAll ==
    /\ cgs.pc = "tensor_product" /\ cgs.r.out = "ok" /\ cgs.whole
    /\ cgs.o.c.total_memory > 1
    /\ Cardinality(cgs.r.w) = cgs.o.c.total_memory

\* product has written a block of c
ProductWrites ==
    /\ cgs.pc = "product" /\ cgs.r.out = "ok" /\ cgs.r.w # {}
    /\ cgs.o.a.info.delta_quantum # Vacuum

\* two factors above TINY with a product below it: nothing is written
TinySkips ==
    /\ cgs.pc \in {"tensor_product", "product"} /\ cgs.r.out = "ok"
    /\ cgs.o.scale = FSmall /\ cgs.o.a.factor = FSmall
    /\ cgs.o.c.info.n > 0 /\ cgs.r.w = {}

\* c spans the basis of a alone: tensor_product writes behind c.data
WritesOutside ==
    /\ cgs.pc = "tensor_product" /\ cgs.r.out = "ok" /\ ~cgs.whole
    /\ \E x \in cgs.r.w : x >= cgs.o.c.total_memory

(***************************************************************************)
(* The shapes of the site matrices of QCMPO (quantum.hpp 2460-2764) and    *)
(* the running offset p of the constructor (SpecShape): the loop over the  *)
(* sites, one site for each step, before filter_site_ops.                  *)
(***************************************************************************)
MaxShapeSites == 4      \* n_sites 2..MaxShapeSites

\* p at assert(p == mat.n) of the branch m == 0
RowOffset(n, m) == 4 + (n - (m + 1)) + (n - (m + 1)) + 2 + 2 + 2

\* p at assert(p == mat.m) of the branch m != 0: p = 2, twice p += m,
\* twice p += n_sites - m, and p += m for s < 2, j < m in three loops
ColumnOffset(n, m) == 2 + m + m + (n - m) + (n - m) + 3 * (2 * m * m)

\* the offset of the interior branch without the columns of the pairs B
InteriorOffsetNoB(n, m) ==
    2 + (m + 1) + (m + 1) + (n - (m + 1)) + (n - (m + 1)) + 2 * (2 * (m + 1) * (m + 1))

\* p at assert(p == mat.n) of the branch m != 0 && m != n_sites - 1, and
\* at assert(p == rshape) of lop: p = 2, twice p += m + 1, twice
\* p += n_sites - (m + 1), and p += (m + 1) * (m + 1) for s < 2 in three loops
InteriorOffset(n, m) ==
    2 + (m + 1) + (m + 1) + (n - (m + 1)) + (n - (m + 1)) + 3 * (2 * (m + 1) * (m + 1))

\* the assignments to mat of site m, in program order
SitePuts(h, fd, m) ==
    IF m = 0 THEN FirstSiteRow(h, fd)
    ELSE IF m = h.n_sites - 1 THEN FirstColumn(h, fd, m)
    ELSE FirstColumn(h, fd, m) \o Interior(h, fd, m)

\* p against the other side of each assertion that site m reaches
SiteAsserts(n, m, mat) ==
    (IF m = 0
     THEN << <<"p == mat.n", RowOffset(n, m), mat.n>> >>
     ELSE << <<"p == mat.m", ColumnOffset(n, m), mat.m>> >>)
    \o (IF m # 0 /\ m # n - 1
        THEN << <<"p == mat.n", InteriorOffset(n, m), mat.n>> >> ELSE <<>>)
    \o (IF m # n - 1
        THEN << <<"p == rshape", InteriorOffset(n, m), RShape(n, m)>> >> ELSE <<>>)
    \o (IF m # 0
        THEN << <<"p == lshape", ColumnOffset(n, m), LShape(n, m)>> >> ELSE <<>>)

\* what the turn for site m leaves: the type and shape of the matrix mat,
\* the length of its data, the cells of the assignments puts, and the
\* assertions
SiteShapeOf(n, m, mat, puts) ==
    [type |-> mat.type, m |-> mat.m, n |-> mat.n, size |-> Len(mat.data),
     cells |-> [k \in 1..Len(puts) |-> <<puts[k].i, puts[k].j>>],
     asserts |-> SiteAsserts(n, m, mat)]

\* the body of the loop over the sites for site m
SiteShape(h, fd, m) ==
    SiteShapeOf(h.n_sites, m, SiteMatrix(h, fd, m), SitePuts(h, fd, m))

\* a Hamiltonian of n sites with the irreps sym, and integrals that are
\* all v
ShapeHamil(n, sym) == [n_sites |-> n, orb_sym |-> sym, vaccum |-> Vacuum]
ShapeInts(n, v) ==
    [ts |-> [p \in 1..TIntSize(n) |-> v], vs |-> [p \in 1..V8IntSize(n) |-> v]]

notShape == <<alloc, live, last, run, lab, cgs, sti, smi, expr, life>>

ShapeInit ==
    /\ AllocIdle
    /\ lab = Idle /\ cgs = Idle /\ sti = Idle /\ smi = Idle
    /\ expr = Idle /\ life = Idle
    /\ \E n \in 2..MaxShapeSites, v \in {FInt(0), FInt(1)} :
         \E sym \in [1..n -> 0..1] :
            mpo = [pc |-> "sites", hamil |-> ShapeHamil(n, sym),
                   fcidump |-> ShapeInts(n, v), sites |-> <<>>]

\* one turn of for (uint8_t m = 0; m < hamil.n_sites; m++)
ShapeSite ==
    /\ mpo.pc = "sites"
    /\ Len(mpo.sites) < mpo.hamil.n_sites
    /\ mpo' = [mpo EXCEPT !.sites = Append(mpo.sites,
                              SiteShape(mpo.hamil, mpo.fcidump, Len(mpo.sites)))]
    /\ UNCHANGED notShape

ShapeNext == ShapeSite

SpecShape == ShapeInit /\ [][ShapeNext]_vars

\* the shape the claim gives site m of n sites: rows, columns, type
ClaimedShape(n, m) ==
    IF m = 0 THEN <<"RVec", 1, 2 + 2 * n + 6>>
    ELSE IF m = n - 1 THEN <<"CVec", 2 + 2 * n + 6 * m * m, 1>>
    ELSE <<"Mat", 2 + 2 * n + 6 * m * m, 2 + 2 * n + 6 * (m + 1) * (m + 1)>>

\* the number of virtual bonds on the left and on the right of a site
BondLeft(s) == IF s.type = "RVec" THEN 1 ELSE s.m
BondRight(s) == IF s.type = "CVec" THEN 1 ELSE s.n

\* the site s is what the claim says of site m
ShapeHolds(n, m, s) ==
    /\ <<s.type, s.m, s.n>> = ClaimedShape(n, m)
    /\ s.type # "Mat" => s.size = s.m * s.n
    /\ \A k \in 1..Len(s.cells) :
           /\ 0 <= s.cells[k][1] /\ s.cells[k][1] < s.m
           /\ 0 <= s.cells[k][2] /\ s.cells[k][2] < s.n
    /\ \A k \in 1..Len(s.cells) : \A l \in 1..Len(s.cells) :
           s.cells[k] = s.cells[l] => k = l
    /\ \A k \in 1..Len(s.asserts) : s.asserts[k][2] = s.asserts[k][3]

(* C25: for every n_sites >= 2 and every site m, QCMPO builds a row vector
   of length 2 + 2*n_sites + 6 at m == 0, a column vector of length
   2 + 2*n_sites + 6*m*m at m == n_sites - 1, and otherwise a
   SymbolicMatrix of shape (2 + 2*n_sites + 6*m*m) x (2 + 2*n_sites +
   6*(m+1)*(m+1)); every cell written lies inside that shape, no pair
   (i, j) is written twice, the running offset p meets all four assertions
   (p == mat.n, p == mat.m, p == rshape, p == lshape), and the column count
   of site m is the row count of site m + 1. *)
C25_Shapes ==
    mpo.pc = "sites" =>
        /\ \A k \in 1..Len(mpo.sites) :
               ShapeHolds(mpo.hamil.n_sites, k - 1, mpo.sites[k])
        /\ \A k \in 1..(Len(mpo.sites) - 1) :
               BondRight(mpo.sites[k]) = BondLeft(mpo.sites[k + 1])

\* all sites of a chain with two interior sites are built
C25_Witness ==
    /\ mpo.pc = "sites"
    /\ Len(mpo.sites) = mpo.hamil.n_sites
    /\ Cardinality({k \in 1..Len(mpo.sites) : mpo.sites[k].type = "Mat"}) >= 2
    /\ \E k \in 1..Len(mpo.sites) :
           mpo.sites[k].type = "Mat" /\ Len(mpo.sites[k].asserts) = 4

(***************************************************************************)
(* The site bases of the Hamiltonian (quantum.hpp 1972-2003, 2367-2389):   *)
(* new StateInfo[n_sites], the loop over the n_syms irreps that fills      *)
(* basis[i], the loop of init_site_ops that reads basis[i], and the loop   *)
(* of deallocate.                                                          *)
(***************************************************************************)
MaxBasisSites == 3      \* n_sites is 1..MaxBasisSites
MaxIrrep == 3           \* the entries of orb_sym are 0..MaxIrrep

\* basis[i] of the branch su2 == false after sort_states()
SiteBasisSZ(vaccum, i) ==
    StateOf(SortSlots(<< [q |-> vaccum, n |-> 1], [q |-> Label3(1, -1, i), n |-> 1],
                         [q |-> Label3(1, 1, i), n |-> 1],
                         [q |-> Label3(2, 0, 0), n |-> 1] >>))

\* basis[i] as the constructor leaves it
BasisOf(vaccum, su2, i) ==
    IF su2 THEN SiteBasis(vaccum, i) ELSE SiteBasisSZ(vaccum, i)

\* the indices i of basis[i] in the order of the accesses of the two loops
\* for (int i = 0; i < n_syms; i++), of the constructor and of init_site_ops
BasisReads(n_syms) == [k \in 1..(2 * n_syms) |-> (k - 1) % n_syms]

\* the indices of for (int i = n_syms - 1; i >= 0; i--) basis[i].deallocate()
BasisFrees(n_syms) == [k \in 1..n_syms |-> n_syms - k]

notBasis == <<alloc, live, last, run, lab, cgs, sti, smi, mpo, life>>

BasisInit ==
    /\ AllocIdle
    /\ lab = Idle /\ cgs = Idle /\ sti = Idle /\ smi = Idle
    /\ mpo = Idle /\ life = Idle
    /\ \E n \in 1..MaxBasisSites, su2 \in BOOLEAN :
       \E orb_sym \in [1..n -> 0..MaxIrrep] :
           expr = [pc |-> "hamil_args", n_sites |-> n, su2 |-> su2,
                   orb_sym |-> orb_sym, n_syms |-> 0, basis |-> <<>>,
                   access |-> <<>>, out |-> "ok"]

\* an access of basis[i] with i >= n_sites is outside new StateInfo[n_sites]:
\* the process faults or goes on
BasisOutcomes(n_sites, access) ==
    IF \E k \in 1..Len(access) : access[k] >= n_sites
    THEN {"ok", "fault"} ELSE {"ok"}

\* Hamiltonian hamil(vaccum, target, norb, su2, fcidump, orb_sym)
BasisConstruct ==
    /\ expr.pc = "hamil_args"
    /\ \E n_syms \in {NSyms(expr.orb_sym)} :
       \E out \in BasisOutcomes(expr.n_sites, BasisReads(n_syms)) :
           expr' = [expr EXCEPT !.pc = "hamil", !.n_syms = n_syms,
                        !.basis = [i1 \in 1..n_syms |->
                                       BasisOf(Vacuum, expr.su2, i1 - 1)],
                        !.access = BasisReads(n_syms), !.out = out]
    /\ UNCHANGED notBasis

\* hamil.deallocate()
BasisDeallocate ==
    /\ expr.pc = "hamil" /\ expr.out = "ok"
    /\ \E out \in BasisOutcomes(expr.n_sites, BasisFrees(expr.n_syms)) :
           expr' = [expr EXCEPT !.pc = "freed",
                        !.access = @ \o BasisFrees(expr.n_syms), !.out = out]
    /\ UNCHANGED notBasis

BasisNext == BasisConstruct \/ BasisDeallocate

SpecBasis == BasisInit /\ [][BasisNext]_vars

\* a label as (n(), twos(), pg())
Decoded(q) == <<LabelN(q), LabelTwos(q), LabelPg(q)>>

\* the table t holds the labels of want, one state each, strictly sorted
DecodesTo(t, want) ==
    /\ Len(t.quanta) = Len(want)
    /\ Len(t.n_states) = Len(want)
    /\ {Decoded(t.quanta[k]) : k \in 1..Len(t.quanta)} = {want[k] : k \in 1..Len(want)}
    /\ \A k \in 1..Len(t.n_states) : t.n_states[k] = 1
    /\ \A k \in 1..(Len(t.quanta) - 1) : LabelLess(t.quanta[k], t.quanta[k + 1])

BasisBuilt == expr.pc \in {"hamil", "freed"}

(* C26: after the constructor every basis[i] of su2 == false decodes to    *)
(* (0, 0, 0), (1, -1, i), (1, 1, i) and (2, 0, 0), one state each and      *)
(* strictly sorted, and every basis[i] of su2 == true to (0, 0, 0),        *)
(* (1, 1, i) and (2, 0, 0).                                                *)
C26_Claimed ==
    BasisBuilt =>
        \A i1 \in 1..Len(expr.basis) :
            DecodesTo(expr.basis[i1],
                      IF expr.su2
                      THEN << <<0, 0, 0>>, <<1, 1, i1 - 1>>, <<2, 0, 0>> >>
                      ELSE << <<0, 0, 0>>, <<1, -1, i1 - 1>>, <<1, 1, i1 - 1>>,
                              <<2, 0, 0>> >>)

\* what the code does build: the table of su2 == true is the claimed one,
\* and in the table of su2 == false the label SpinLabel(1, -1, i) reads
\* n() == -1 and twos() == 255 and is sorted last
BasisDecoded ==
    BasisBuilt =>
        \A i1 \in 1..Len(expr.basis) :
            /\ DecodesTo(expr.basis[i1],
                         IF expr.su2
                         THEN << <<0, 0, 0>>, <<1, 1, i1 - 1>>, <<2, 0, 0>> >>
                         ELSE << <<0, 0, 0>>, <<1, 1, i1 - 1>>, <<2, 0, 0>>,
                                 <<-1, 255, i1 - 1>> >>)
            /\ ~expr.su2 => Decoded(expr.basis[i1].quanta[4]) = <<-1, 255, i1 - 1>>

\* a Hamiltonian of su2 == false has been built
BasisSZBuilt == BasisBuilt /\ ~expr.su2 /\ expr.out = "ok"

(* C30: every index i of an access basis[i] by the constructor,            *)
(* init_site_ops and deallocate is below n_sites, the length of the array. *)
C30_Claimed ==
    \A k \in 1..Len(expr.access) : expr.access[k] < expr.n_sites

\* the accesses stay inside the array when no entry of orb_sym reaches n_sites
BasisInsideWhenSmall ==
    (\A k \in 1..Len(expr.orb_sym) : expr.orb_sym[k] < expr.n_sites) => C30_Claimed

\* the accesses are the indices below n_syms
BasisBelowNSyms ==
    BasisBuilt => \A k \in 1..Len(expr.access) : expr.access[k] < expr.n_syms

\* a loop has gone past the end of the array and the process went on
BasisOverrun ==
    /\ expr.pc = "freed" /\ expr.out = "ok"
    /\ \E k \in 1..Len(expr.access) : expr.access[k] >= expr.n_sites

(***************************************************************************)
(* The allocator under callers that also grow their blocks: SpecGrow.      *)
(* reallocate (quantum.hpp 97-104) is called on a live block with its size *)
(* and any new size; allocate and deallocate are called as in SpecAlloc.   *)
(***************************************************************************)
MaxGrow == 3        \* largest new size a caller asks reallocate for

GrowCall ==
    \E i \in 1..Len(live), new_n \in 0..MaxGrow :
        LET r == Reallocate(alloc, live[i].ptr, live[i].n, new_n) IN
        /\ ~Aborted
        /\ r.ret \in 0..AllocSize     \* the pointer stays inside the buffer
        /\ alloc' = r.a
        /\ live' = [live EXCEPT ![i] = [ptr |-> r.ret, n |-> new_n]]
        /\ last' = [pc |-> "call", op |-> "reallocate", n |-> live[i].n,
                    ptr |-> r.ret, used0 |-> alloc.used, shift0 |-> alloc.shift,
                    out |-> "ok", idx |-> i, top |-> (i = Len(live)),
                    posAbove |-> (\E j \in (i + 1)..Len(live) : live[j].n > 0),
                    re |-> TRUE]
        /\ run' = Idle
        /\ UNCHANGED notAlloc

GrowNext == AllocateCall \/ DeallocateCall \/ GrowCall

SpecGrow == AllocInit /\ [][GrowNext]_vars

\* the sizes of the live blocks
LiveSizes == [k \in 1..Len(live) |-> live[k].n]

(* C27: after any calls of allocate, deallocate and reallocate that take   *)
(* no fatal path, growing reallocate calls included, used <= size, and     *)
(* used has not wrapped below zero.                                        *)
C27_Claimed ==
    ~Aborted => (~ULess(alloc.size, alloc.used) /\ alloc.used >= 0)

\* used is the sum of the sizes of the live blocks: it never wraps when the
\* callers pass the sizes of their blocks
UsedIsLive == ~Aborted => (alloc.used = SumSeq(LiveSizes) /\ alloc.used >= 0)

\* before any reallocate call, used stays below size
UsedBelowSize == (~Aborted /\ ~Realloced /\ ~IsCall("reallocate")) => alloc.used < alloc.size

\* a growing reallocate has taken used above size
GrownPastSize ==
    /\ IsCall("reallocate") /\ last.out = "ok"
    /\ last.used0 < alloc.size /\ alloc.used > alloc.size

(***************************************************************************)
(* filter called twice on the same pair of tables: SpecRefilter.           *)
(***************************************************************************)
MaxRefilterN == 2       \* particle numbers 0..MaxRefilterN of a target

\* the labels of the table t
QuantaOf(t) == {t.quanta[k] : k \in 1..Len(t.quanta)}

\* the labels of the site bases the Hamiltonian builds, of both branches
RefilterLabels == QuantaOf(BasisOf(Vacuum, TRUE, 0)) \cup QuantaOf(BasisOf(Vacuum, FALSE, 0))

\* entries of one or two states
RefilterCounts == {1, 2}

RefilterTargets == { Label3(n, n % 2, 0) : n \in 0..MaxRefilterN }

RefilterInit ==
    /\ AllocIdle
    /\ lab = Idle /\ cgs = Idle /\ smi = Idle
    /\ expr = Idle /\ mpo = Idle /\ life = Idle
    /\ \E a \in StateTablesOver(RefilterLabels, RefilterCounts),
          b \in StateTablesOver(RefilterLabels, RefilterCounts),
          target \in RefilterTargets :
          sti = [pc |-> "refilter_args", a |-> a, b |-> b, target |-> target,
                 fa |-> a, fb |-> b, ga |-> a, gb |-> b, out |-> "ok"]

\* filter(a, b, target), the first call
RefilterFirst ==
    /\ sti.pc = "refilter_args"
    /\ \E f \in {Filter(sti.a, sti.b, sti.target)}, out \in {"ok", "fault"} :
          sti' = [sti EXCEPT !.pc = "once", !.fa = f[1], !.fb = f[2],
                             !.ga = f[1], !.gb = f[2], !.out = out]
    /\ UNCHANGED notState

\* filter(a, b, target) once more, on the tables the first call left
RefilterSecond ==
    /\ sti.pc = "once" /\ sti.out = "ok"
    /\ \E f \in {Filter(sti.fa, sti.fb, sti.target)}, out \in {"ok", "fault"} :
          sti' = [sti EXCEPT !.pc = "twice", !.ga = f[1], !.gb = f[2], !.out = out]
    /\ UNCHANGED notState

RefilterNext == RefilterFirst \/ RefilterSecond

SpecRefilter == RefilterInit /\ [][RefilterNext]_vars

\* the second call has changed nothing
SecondSame ==
    /\ sti.ga.n_states = sti.fa.n_states
    /\ sti.gb.n_states = sti.fb.n_states
    /\ sti.ga.n_states_total = sti.fa.n_states_total
    /\ sti.gb.n_states_total = sti.fb.n_states_total

(* C28: filter(a, b, target) called a second time right after the first    *)
(* changes no n_states entry and no n_states_total of either table.        *)
C28_Claimed == sti.pc = "twice" => SecondSame

\* no label of the two tables has a doubled spin above 127
SpinsFit ==
    \A q \in QuantaOf(sti.a) \cup QuantaOf(sti.b) : LabelTwos(q) <= Int8Max

\* on tables whose spins fit, the second call changes nothing
RefilterSameWhenFit == (sti.pc = "twice" /\ SpinsFit) => SecondSame

\* the second call has taken states away that the first call left
SecondCuts ==
    /\ sti.pc = "twice" /\ sti.out = "ok"
    /\ sti.ga.n_states_total < sti.fa.n_states_total

\* both calls on tables whose spins fit, the first one cutting both tables
RefilterFit ==
    /\ sti.pc = "twice" /\ sti.out = "ok" /\ SpinsFit
    /\ sti.fa.n_states_total < sti.a.n_states_total
    /\ sti.fb.n_states_total < sti.b.n_states_total
    /\ sti.fa.n_states_total > 0

====
